---- MODULE Spec2Model ----
(***************************************************************************)
(* A model of lancedb/community-metrics: the LanceDB-backed series store   *)
(* (storage/lancedb_store.py), the ingestion jobs that write to it         *)
(* (jobs/*.py) and the read API (api/main.py).                             *)
(*                                                                         *)
(* Conventions.                                                            *)
(*  - A table is a bag (multiset) of rows: LanceDB keeps every appended    *)
(*    row, also two equal ones, and promises no order.                     *)
(*  - period_end is stored as an ISO string 'YYYY-MM-DD' and compared as a *)
(*    string, by Python's min/max and by the SQL predicate.  Fixed-width   *)
(*    ISO dates order like the days they name, so a day is modelled by its *)
(*    number 1..MaxDay.                                                    *)
(*  - Python's None and a missing dict key are the strings None and        *)
(*    Missing; timestamps are the strings of Timestamps.                   *)
(***************************************************************************)
EXTENDS Integers, Sequences, FiniteSets, Bags, TLC

VARIABLES
    stats,      \* the stats table: a bag of normalized stat rows
    history,    \* the history table: a bag of normalized run records
    call,       \* the store call in progress or just returned (its arguments and result)
    passed,     \* per ingestion_run_id, the row the latest upsert_history got (<<>>: none)
    job,        \* the job run in progress or just ended (its inputs and what it did)
    latest_day, \* utils.time.latest_completed_day(): the day before today
    response,   \* the API response on its way to the client
    helper,     \* the call of an aggregation helper of api/main.py just made (arguments, result)
    writers     \* two callers inside replace_stats at once: what each holds and where it stands

vars == <<stats, history, call, passed, job, latest_day, response, helper, writers>>
storeVars == <<stats, history, call, passed, job, latest_day>>
jobVars == <<job, latest_day, response, helper, writers>>

(***************************************************************************)
(* Bounds of the model.                                                    *)
(***************************************************************************)
MaxDay == 3      \* days are 1..MaxDay
MaxRows == 2     \* a write is explored while the stats table stays within MaxRows rows
MaxBatch == 2    \* a batch holds at most MaxBatch rows
MaxRuns == 2     \* a behaviour holds at most MaxRuns job runs
DaysPerMonth == 2 \* a month of the model's calendar has DaysPerMonth days
MaxKnown == 3    \* a helper of the read API is given at most MaxKnown rows
SeriesMaxDay == 4 \* the rows of a series lie on the days 1..SeriesMaxDay
MaxPoints == 2   \* at most MaxPoints sparkline points, and at most MaxPoints rows with a period
MaxSpan == 3     \* the period of a row lies within the days 1..MaxSpan
StarsMaxDay == 3 \* the rows of the star metrics lie on the days 1..StarsMaxDay
WriterMaxDay == 2 \* the rows of two concurrent writers lie on the days 1..WriterMaxDay

None == "None"
Missing == "Missing"

Days == 1..MaxDay
MetricIds == {"downloads:lance:python", "stars:lance:github"}
Values == {1, 2}
GivenTimestamps == {"t0"}          \* an observed_at the caller supplies
ClockReadings == {"t1", "t2"}      \* what datetime.now(tz=utc) may return

Min(S) == CHOOSE x \in S : \A y \in S : x <= y
Max(S) == CHOOSE x \in S : \A y \in S : x >= y
Range(f) == {f[i] : i \in DOMAIN f}

(***************************************************************************)
(* Rows as callers pass them.  A row built by jobs.common.to_daily_stat_row *)
(* carries every field; a hand-built row may leave observed_at None and    *)
(* the tags out, which _normalize_stat_row fills in.                       *)
(***************************************************************************)
SourceWindowOf(m) ==
    IF m = "stars:lance:github" THEN "cumulative_snapshot" ELSE "1d"

FullRow(m, d, v) ==
    [metric_id |-> m, period_end |-> d, value |-> v,
     observed_at |-> "t0", source_window |-> SourceWindowOf(m)]

BareRow(m, d, v) ==
    [metric_id |-> m, period_end |-> d, value |-> v,
     observed_at |-> None, source_window |-> Missing]

\* The rows of Spec: complete rows of two metrics.
InputRows == {FullRow(m, d, v) : m \in MetricIds, d \in Days, v \in Values}

\* The rows of SpecAnyRows: rows of one metric, complete or bare.
AnyRows ==
    {FullRow("downloads:lance:python", d, 1) : d \in Days}
    \cup {BareRow("downloads:lance:python", d, 1) : d \in Days}

SeqsUpTo(S, n) == UNION {[1..k -> S] : k \in 0..n}
Batches == SeqsUpTo(InputRows, MaxBatch)
AnyBatches == SeqsUpTo(AnyRows, MaxBatch)

(***************************************************************************)
(* Bags.                                                                   *)
(***************************************************************************)
SeqToBag(rows) ==
    [r \in Range(rows) |-> Cardinality({i \in DOMAIN rows : rows[i] = r})]

Count(table, r) == IF r \in DOMAIN table THEN table[r] ELSE 0

Size(table) == BagCardinality(table)

\* table.delete(predicate): every row the predicate selects goes.
DeleteWhere(table, selected) ==
    [r \in DOMAIN table \ selected |-> table[r]]

\* table.add(rows, mode="append")
TableAdd(table, rows) == table (+) SeqToBag(rows)

RowsWhere(table, selected) ==
    [r \in DOMAIN table \cap selected |-> table[r]]

(***************************************************************************)
(* LanceDBStore._normalize_stat_row: observed_at None becomes the clock's  *)
(* reading, a missing tag becomes 'unknown', value goes through int().     *)
(***************************************************************************)
NormalizeStatRow(row, now) ==
    [metric_id |-> row.metric_id,
     period_end |-> row.period_end,
     value |-> row.value,
     observed_at |-> IF row.observed_at = None THEN now ELSE row.observed_at,
     source_window |-> IF row.source_window = Missing THEN "unknown"
                       ELSE row.source_window]

\* [self._normalize_stat_row(row) for row in rows]; clock[i] is the clock's
\* reading while row i is normalized (the clock is read only for a row
\* without observed_at).
NormalizeRows(rows, clock) ==
    [i \in DOMAIN rows |->
        NormalizeStatRow(rows[i], IF i \in DOMAIN clock THEN clock[i] ELSE None)]

(***************************************************************************)
(* LanceDBStore.replace_stats                                              *)
(***************************************************************************)
\* metric_windows[m]: the smallest and largest period_end of m's batch rows
MetricWindow(rows, m) ==
    LET days == {rows[i].period_end : i \in {j \in DOMAIN rows : rows[j].metric_id = m}}
    IN  [min_day |-> Min(days), max_day |-> Max(days)]

BatchMetrics(rows) == {rows[i].metric_id : i \in DOMAIN rows}

\* A mutant: the lower end of the range is left out of the delete.
DeletePredicateOpenLow(r, m, min_day, max_day) ==
    /\ r.metric_id = m
    /\ r.period_end > min_day
    /\ r.period_end <= max_day

\* A mutant: the delete does not name the metric.
DeletePredicateAnyMetric(r, m, min_day, max_day) ==
    /\ r.period_end >= min_day
    /\ r.period_end <= max_day

\* metric_id = m AND period_end >= min_day AND period_end <= max_day
DeletePredicate(r, m, min_day, max_day) ==
    /\ r.metric_id = m
    /\ r.period_end >= min_day
    /\ r.period_end <= max_day

\* for metric_id, (min_day, max_day) in metric_windows.items(): table.delete(...)
\* The deletes touch disjoint sets of rows, so their order does not matter.
DeleteWindows(table, normalized) ==
    LET metric_windows == [m \in BatchMetrics(normalized) |-> MetricWindow(normalized, m)]
    IN  DeleteWhere(table,
            {r \in DOMAIN table : \E m \in DOMAIN metric_windows :
                DeletePredicate(r, m, metric_windows[m].min_day,
                                      metric_windows[m].max_day)})

\* A mutant: rows are deleted key by key, not by range.
ReplacedTableByKey(table, normalized) ==
    TableAdd(DeleteWhere(table,
                 {r \in DOMAIN table : \E i \in DOMAIN normalized :
                     /\ normalized[i].metric_id = r.metric_id
                     /\ normalized[i].period_end = r.period_end}),
             normalized)

\* A mutant: nothing is deleted before the append.
ReplacedTableNoDelete(table, normalized) == TableAdd(table, normalized)

\* The table after the deletes and the append of a non-empty batch.
ReplacedTable(table, normalized) ==
    TableAdd(DeleteWindows(table, normalized), normalized)

WriteResult(n) == [inserted |-> n, updated |-> 0]

Idle == [op |-> "idle", rows |-> <<>>, ret |-> WriteResult(0), again |-> FALSE,
         deleted |-> 0, deletedOffKey |-> 0]

HasKey(rows, r) ==
    \E i \in DOMAIN rows :
        rows[i].metric_id = r.metric_id /\ rows[i].period_end = r.period_end

\* replace_stats(rows), and upsert_stats(rows), which only calls it.  A call
\* starts when the store is idle, or repeats the call that just returned
\* with the same rows.  call.deleted counts the rows the deletes removed and
\* call.deletedOffKey those among them whose key the batch does not hold.
ReplaceStats(rows, clock) ==
    /\ \/ call.op = "idle"
       \/ call.op = "replace_stats" /\ call.rows = rows /\ ~call.again
    /\ IF rows = <<>>
       THEN /\ stats' = stats
            /\ call' = [Idle EXCEPT !.op = "replace_stats",
                                    !.again = (call.op = "replace_stats")]
       ELSE LET normalized == NormalizeRows(rows, clock)
                kept == DeleteWindows(stats, normalized)
                gone == stats (-) kept
            IN  /\ Size(kept) + Len(normalized) <= MaxRows
                /\ stats' = ReplacedTable(stats, normalized)
                /\ call' = [op |-> "replace_stats", rows |-> rows,
                            ret |-> WriteResult(Len(normalized)),
                            again |-> (call.op = "replace_stats"),
                            deleted |-> Size(gone),
                            deletedOffKey |->
                                Size(RowsWhere(gone, {r \in DOMAIN gone : ~HasKey(normalized, r)}))]
    /\ UNCHANGED <<history, passed, jobVars>>

(***************************************************************************)
(* LanceDBStore.append_stats                                               *)
(***************************************************************************)
AppendStats(rows, clock) ==
    /\ call.op = "idle"
    /\ IF rows = <<>>
       THEN /\ stats' = stats
            /\ call' = [Idle EXCEPT !.op = "append_stats"]
       ELSE LET normalized == NormalizeRows(rows, clock)
                after == TableAdd(stats, normalized)
            IN  /\ Size(after) <= MaxRows
                /\ stats' = after
                /\ call' = [Idle EXCEPT !.op = "append_stats", !.rows = rows,
                                        !.ret = WriteResult(Len(normalized))]
    /\ UNCHANGED <<history, passed, jobVars>>

\* The caller takes the result; the store is idle again.
Return ==
    /\ call.op # "idle"
    /\ call' = Idle
    /\ UNCHANGED <<stats, history, passed, jobVars>>

(***************************************************************************)
(* LanceDBStore.upsert_history                                             *)
(***************************************************************************)
RunIds == {"run-a", "run-b", "run-c"}
HandBuiltRunIds == {"run-a", "run-b"}
Statuses == {"success", "partial", "failed"}

\* error_summary: None, or the entries ' | '.join(errors) strings together
NoSummary == [none |-> TRUE, parts |-> <<>>]
ErrorEntry(metric_id, kind) == [metric_id |-> metric_id, kind |-> kind]

\* The rows finish_run passes (finished_at set), and hand-built rows that
\* leave finished_at None.
HistoryRows ==
    [ingestion_run_id : HandBuiltRunIds, status : Statuses,
     finished_at : GivenTimestamps \cup {None}, rows_inserted : {0, 2},
     error_summary : {NoSummary}]

\* LanceDBStore._normalize_history_row
NormalizeHistoryRow(row, now) ==
    [ingestion_run_id |-> row.ingestion_run_id,
     status |-> row.status,
     finished_at |-> IF row.finished_at = None THEN now ELSE row.finished_at,
     rows_inserted |-> row.rows_inserted,
     error_summary |-> row.error_summary]

\* A mutant: the delete selects nothing.
HistoryDeletePredicateNever(r, ingestion_run_id) == FALSE

\* ingestion_run_id = '<id>'
HistoryDeletePredicate(r, ingestion_run_id) ==
    r.ingestion_run_id = ingestion_run_id

\* table.delete("ingestion_run_id = '<id>'")
HistoryWithout(table, ingestion_run_id) ==
    DeleteWhere(table, {r \in DOMAIN table : HistoryDeletePredicate(r, ingestion_run_id)})

\* The history table after upsert_history(row): the id's rows are deleted,
\* the normalized row is appended.
UpsertedHistory(table, row, now) ==
    TableAdd(HistoryWithout(table, row.ingestion_run_id),
             <<NormalizeHistoryRow(row, now)>>)

Passed(row, now) ==
    [passed EXCEPT ![row.ingestion_run_id] = <<[row |-> row, now |-> now]>>]

UpsertHistory(row, now) ==
    /\ call.op = "idle"
    /\ history' = UpsertedHistory(history, row, now)
    /\ call' = [Idle EXCEPT !.op = "upsert_history", !.rows = <<row>>,
                            !.ret = WriteResult(1),
                            !.deleted = Size(history) -
                                Size(HistoryWithout(history, row.ingestion_run_id))]
    /\ passed' = Passed(row, now)
    /\ UNCHANGED <<stats, jobVars>>

\* The clock is read only for a row without finished_at.
HistoryClocks(row) == IF row.finished_at = None THEN ClockReadings ELSE {None}

(***************************************************************************)
(* jobs/common.py                                                          *)
(***************************************************************************)
\* DOWNLOAD_METRIC_SOURCE_MAP in dict order, one metric of each provider
DOWNLOAD_METRIC_SOURCE_MAP ==
    <<[metric_id |-> "downloads:lance:python", source |-> "pypi"],
      [metric_id |-> "downloads:lance:rust", source |-> "crates"],
      [metric_id |-> "downloads:lancedb:nodejs", source |-> "npm"]>>

\* STARS_METRIC_SOURCE_MAP in dict order
STARS_METRIC_SOURCE_MAP ==
    <<[metric_id |-> "stars:lance:github", source |-> "github"],
      [metric_id |-> "stars:lancedb:github", source |-> "github"]>>

MetricIdsOf(catalog) == {catalog[i].metric_id : i \in DOMAIN catalog}

JobClockReadings == {"t1"}

\* to_daily_stat_row: every field is set
ToDailyStatRow(metric_id, day, observed_at, value, source_window) ==
    [metric_id |-> metric_id, period_end |-> day, value |-> value,
     observed_at |-> observed_at, source_window |-> source_window]

\* latest_period_end_for_metric: <<>> is None, <<d>> the latest stored day
LatestPeriodEndForMetric(table, metric_id) ==
    LET days == {r.period_end : r \in {x \in DOMAIN table : x.metric_id = metric_id}}
    IN  IF days = {} THEN <<>> ELSE <<Max(days)>>

\* days_to_refresh raises ValueError
DaysToRefreshRaises(lookback_days) == lookback_days < 0

\* A mutant: the lookback reaches one day further back.
DaysToRefreshOneMore(latest_existing_period_end, latest_completed_period_end, lookback_days) ==
    LET first == IF latest_existing_period_end # <<>>
                 THEN latest_existing_period_end[1] + 1
                 ELSE latest_completed_period_end
        lookback_start == latest_completed_period_end - lookback_days
        start == IF lookback_days > 0 /\ lookback_start < first
                 THEN lookback_start ELSE first
    IN  IF start > latest_completed_period_end
        THEN <<>>
        ELSE [i \in 1..(latest_completed_period_end - start + 1) |-> start + i - 1]

\* A mutant: without a lookback only the latest completed day is refreshed.
DaysToRefreshLatestOnly(latest_existing_period_end, latest_completed_period_end, lookback_days) ==
    LET lookback_start == latest_completed_period_end - (lookback_days - 1)
        start == IF lookback_days > 0 THEN lookback_start
                 ELSE latest_completed_period_end
    IN  IF latest_existing_period_end = <<latest_completed_period_end>>
           /\ lookback_days = 0
        THEN <<>>
        ELSE [i \in 1..(latest_completed_period_end - start + 1) |-> start + i - 1]

\* days_to_refresh, for lookback_days >= 0: the list of days
DaysToRefresh(latest_existing_period_end, latest_completed_period_end, lookback_days) ==
    LET first == IF latest_existing_period_end # <<>>
                 THEN latest_existing_period_end[1] + 1
                 ELSE latest_completed_period_end
        lookback_start == latest_completed_period_end - (lookback_days - 1)
        start == IF lookback_days > 0 /\ lookback_start < first
                 THEN lookback_start ELSE first
    IN  IF start > latest_completed_period_end
        THEN <<>>
        ELSE [i \in 1..(latest_completed_period_end - start + 1) |-> start + i - 1]

\* status and error_summary as both daily jobs compute them
RunStatus(errors) == IF errors = <<>> THEN "success" ELSE "partial"

ErrorSummary(errors) ==
    IF errors = <<>> THEN NoSummary ELSE [none |-> FALSE, parts |-> errors]

\* The row finish_run hands to upsert_history.
FinishRunRow(run_id, status, rows_inserted, error_summary, now) ==
    [ingestion_run_id |-> run_id, status |-> status, finished_at |-> now,
     rows_inserted |-> rows_inserted, error_summary |-> error_summary]

\* The stats table after upsert_stats(rows), and what the call returns.
UpsertedStats(table, rows) ==
    IF rows = <<>> THEN table ELSE ReplacedTable(table, NormalizeRows(rows, <<>>))

UpsertStatsResult(rows) == WriteResult(Len(rows))

JobReturn(inserted, errors) ==
    [inserted |-> inserted, updated |-> 0, errors |-> errors]

JobIdle ==
    [name |-> "idle", run_id |-> "", lookback_days |-> 0, env |-> <<>>,
     fault |-> "none", rows |-> <<>>, errors |-> <<>>, visited |-> <<>>,
     outcome |-> "none", finish_calls |-> 0, ret |-> JobReturn(0, 0),
     runs |-> 0]

\* The record of a run that starts now: runs counts the runs so far.
JobStarted(name, run_id) ==
    [JobIdle EXCEPT !.name = name, !.run_id = run_id, !.runs = job.runs + 1]

\* What one pass of a job's for loop yields.
Nothing(metric_id) == [rows |-> <<>>, errors |-> <<>>, visited |-> <<metric_id>>]

Raised(metric_id) ==
    [rows |-> <<>>, errors |-> <<ErrorEntry(metric_id, "exception")>>,
     visited |-> <<metric_id>>]

Collected(metric_id, rows, errors) ==
    [rows |-> rows, errors |-> errors, visited |-> <<metric_id>>]

Append3(a, b) ==
    [rows |-> a.rows \o b.rows, errors |-> a.errors \o b.errors,
     visited |-> a.visited \o b.visited]

(***************************************************************************)
(* jobs/update_daily_downloads.py                                          *)
(***************************************************************************)
\* A provider's answer: an error, or the daily totals of the days it has.
FetchError == [ok |-> FALSE, totals |-> <<>>]
FetchOk(days) == [ok |-> TRUE, totals |-> [d \in days |-> 1]]

\* The body of the try block for one metric.
DownloadRows(table, entry, lookback_days, fetched, now) ==
    IF DaysToRefreshRaises(lookback_days)
    THEN Raised(entry.metric_id)
    ELSE LET target_days ==
                 DaysToRefresh(LatestPeriodEndForMetric(table, entry.metric_id),
                               latest_day, lookback_days)
             kept == IF entry.source = "crates"
                     THEN SelectSeq(target_days, LAMBDA d : d \in DOMAIN fetched.totals)
                     ELSE target_days
         IN  IF target_days = <<>> THEN Nothing(entry.metric_id)
             ELSE IF ~fetched.ok THEN Raised(entry.metric_id)
             ELSE Collected(entry.metric_id,
                      [i \in DOMAIN kept |->
                          ToDailyStatRow(entry.metric_id, kept[i], now,
                              IF kept[i] \in DOMAIN fetched.totals
                              THEN fetched.totals[kept[i]] ELSE 0,
                              "1d")],
                      <<>>)

\* A mutant: the loop ends at the first metric that raises.
RECURSIVE CollectDownloadsAbort(_, _, _, _, _)
CollectDownloadsAbort(table, catalog, lookback_days, responses, now) ==
    IF catalog = <<>> THEN [rows |-> <<>>, errors |-> <<>>, visited |-> <<>>]
    ELSE LET this == DownloadRows(table, Head(catalog), lookback_days,
                                  responses[Head(catalog).metric_id], now)
         IN  IF this.errors # <<>> THEN this
             ELSE Append3(this, CollectDownloadsAbort(table, Tail(catalog),
                                    lookback_days, responses, now))

\* for metric_id, (source, subject) in DOWNLOAD_METRIC_SOURCE_MAP.items()
RECURSIVE CollectDownloads(_, _, _, _, _)
CollectDownloads(table, catalog, lookback_days, responses, now) ==
    IF catalog = <<>> THEN [rows |-> <<>>, errors |-> <<>>, visited |-> <<>>]
    ELSE Append3(DownloadRows(table, Head(catalog), lookback_days,
                              responses[Head(catalog).metric_id], now),
                 CollectDownloads(table, Tail(catalog), lookback_days, responses, now))

\* What both daily jobs do after the loop: upsert_stats(rows), finish_run,
\* return.  fault names the store call that raises in this run.
WriteAndFinish(name, run_id, lookback_days, env, collected, fault, now) ==
    LET rows == collected.rows
        errors == collected.errors
        ghost == [JobStarted(name, run_id) EXCEPT
                                 !.lookback_days = lookback_days, !.env = env,
                                 !.fault = fault, !.rows = rows, !.errors = errors,
                                 !.visited = collected.visited]
        upsert == UpsertStatsResult(rows)
        record == FinishRunRow(run_id, RunStatus(errors), upsert.inserted,
                               ErrorSummary(errors), now)
    IN  IF fault = "upsert_stats"
        THEN /\ UNCHANGED <<stats, history, passed>>
             /\ job' = [ghost EXCEPT !.outcome = "raised"]
        ELSE /\ stats' = UpsertedStats(stats, rows)
             /\ IF fault = "upsert_history"
                THEN /\ UNCHANGED <<history, passed>>
                     /\ job' = [ghost EXCEPT !.outcome = "raised", !.finish_calls = 1]
                ELSE /\ history' = UpsertedHistory(history, record, now)
                     /\ passed' = Passed(record, now)
                     /\ job' = [ghost EXCEPT !.outcome = "returned",
                                             !.finish_calls = 1,
                                             !.ret = JobReturn(upsert.inserted,
                                                               Len(errors))]

\* update_daily_downloads.run(run_id, lookback_days)
UpdateDailyDownloads(run_id, lookback_days, responses, fault, now) ==
    /\ job.name = "idle"
    /\ job.runs < MaxRuns
    /\ call.op = "idle"
    /\ WriteAndFinish("update_daily_downloads", run_id, lookback_days, responses,
                      CollectDownloads(stats, DOWNLOAD_METRIC_SOURCE_MAP,
                                       lookback_days, responses, now),
                      fault, now)
    /\ UNCHANGED <<call, latest_day, response, helper, writers>>

(***************************************************************************)
(* jobs/update_daily_stars.py                                              *)
(***************************************************************************)
\* The stargazer events of a repository: the day each star was given.
StargazerEvents == [i \in 1..MaxDay |-> i]

\* GitHubClient.get_repo_stars: the repository's star count now
RepoStars == Len(StargazerEvents)

\* _daily_cumulative_stars: the events dated before the end of the day
DailyCumulativeStars(events, day) ==
    Cardinality({i \in DOMAIN events : events[i] < day + 1})

StarRows(metric_id, target_days, totals, now) ==
    [i \in DOMAIN target_days |->
        ToDailyStatRow(metric_id, target_days[i], now,
            IF target_days[i] \in DOMAIN totals THEN totals[target_days[i]] ELSE 0,
            "cumulative_snapshot")]

\* A mutant: the stargazer events are read whatever the shape of the refresh.
StarsRowsFromEvents(table, entry, lookback_days, github, now) ==
    IF DaysToRefreshRaises(lookback_days)
    THEN Raised(entry.metric_id)
    ELSE LET target_days ==
                 DaysToRefresh(LatestPeriodEndForMetric(table, entry.metric_id),
                               latest_day, lookback_days)
             days == Range(target_days)
             snapshot == [d \in days |-> RepoStars]
             counted == [d \in days |-> DailyCumulativeStars(StargazerEvents, d)]
         IN  IF target_days = <<>> THEN Nothing(entry.metric_id)
             ELSE IF github.events_ok
             THEN Collected(entry.metric_id,
                      StarRows(entry.metric_id, target_days, counted, now), <<>>)
             ELSE IF github.snapshot_ok
             THEN Collected(entry.metric_id,
                      StarRows(entry.metric_id, target_days, snapshot, now),
                      <<ErrorEntry(entry.metric_id, "fell back to snapshot")>>)
             ELSE Raised(entry.metric_id)

\* The body of the try block for one metric; github says which of the two
\* GitHub reads work.
StarsRows(table, entry, lookback_days, github, now) ==
    IF DaysToRefreshRaises(lookback_days)
    THEN Raised(entry.metric_id)
    ELSE LET target_days ==
                 DaysToRefresh(LatestPeriodEndForMetric(table, entry.metric_id),
                               latest_day, lookback_days)
             days == Range(target_days)
             snapshot == [d \in days |-> RepoStars]
             counted == [d \in days |-> DailyCumulativeStars(StargazerEvents, d)]
         IN  IF target_days = <<>> THEN Nothing(entry.metric_id)
             ELSE IF Len(target_days) = 1 /\ lookback_days = 0
             THEN IF github.snapshot_ok
                  THEN Collected(entry.metric_id,
                           StarRows(entry.metric_id, target_days, snapshot, now), <<>>)
                  ELSE Raised(entry.metric_id)
             ELSE IF github.events_ok
             THEN Collected(entry.metric_id,
                      StarRows(entry.metric_id, target_days, counted, now), <<>>)
             ELSE IF github.snapshot_ok
             THEN Collected(entry.metric_id,
                      StarRows(entry.metric_id, target_days, snapshot, now),
                      <<ErrorEntry(entry.metric_id, "fell back to snapshot")>>)
             ELSE Raised(entry.metric_id)

\* for metric_id, repo in STARS_METRIC_SOURCE_MAP.items()
RECURSIVE CollectStars(_, _, _, _, _)
CollectStars(table, catalog, lookback_days, github, now) ==
    IF catalog = <<>> THEN [rows |-> <<>>, errors |-> <<>>, visited |-> <<>>]
    ELSE Append3(StarsRows(table, Head(catalog), lookback_days,
                           github[Head(catalog).metric_id], now),
                 CollectStars(table, Tail(catalog), lookback_days, github, now))

\* update_daily_stars.run(run_id, lookback_days)
UpdateDailyStars(run_id, lookback_days, github, fault, now) ==
    /\ job.name = "idle"
    /\ job.runs < MaxRuns
    /\ call.op = "idle"
    /\ WriteAndFinish("update_daily_stars", run_id, lookback_days, github,
                      CollectStars(stats, STARS_METRIC_SOURCE_MAP,
                                   lookback_days, github, now),
                      fault, now)
    /\ UNCHANGED <<call, latest_day, response, helper, writers>>

(***************************************************************************)
(* jobs/seed_from_csv.py                                                   *)
(***************************************************************************)
\* The rows of the seed files: one day of the legacy download totals and
\* one star count.
SeedRows ==
    <<ToDailyStatRow("downloads:lance:python", 1, "t0", 2, "legacy_unknown"),
      ToDailyStatRow("stars:lance:github", 1, "t0", 2, "cumulative_snapshot")>>

SeedError == ErrorSummary(<<ErrorEntry("seed_from_csv", "exception")>>)

\* seed_from_csv.run(): the whole body is one try block whose handler calls
\* finish_run(status="failed") and raises again.  files_ok: the seed files
\* are there; fault: the store call that raises ("upsert_history_once":
\* only the first upsert_history of the run).
SeedFromCsv(run_id, files_ok, fault, now) ==
    /\ job.name = "idle"
    /\ job.runs < MaxRuns
    /\ call.op = "idle"
    /\ LET rows == IF files_ok THEN SeedRows ELSE <<>>
           wrote == files_ok /\ fault # "upsert_stats"
           inserted == IF wrote THEN UpsertStatsResult(rows).inserted ELSE 0
           first_finish == wrote
           first_fails == fault \in {"upsert_history", "upsert_history_once"}
           handler == ~wrote \/ first_fails
           handler_fails == fault = "upsert_history"
           success == FinishRunRow(run_id, "success", inserted, NoSummary, now)
           failed == FinishRunRow(run_id, "failed", inserted, SeedError, now)
           ghost == [JobStarted("seed_from_csv", run_id) EXCEPT
                                    !.env = files_ok, !.fault = fault, !.rows = rows]
       IN  /\ stats' = IF wrote THEN UpsertedStats(stats, rows) ELSE stats
           /\ IF ~handler
              THEN /\ history' = UpsertedHistory(history, success, now)
                   /\ passed' = Passed(success, now)
              ELSE IF ~handler_fails
              THEN /\ history' = UpsertedHistory(history, failed, now)
                   /\ passed' = Passed(failed, now)
              ELSE UNCHANGED <<history, passed>>
           /\ job' = [ghost EXCEPT
                        !.outcome = IF handler THEN "raised" ELSE "returned",
                        !.finish_calls = (IF first_finish THEN 1 ELSE 0) +
                                         (IF handler THEN 1 ELSE 0),
                        !.ret = JobReturn(inserted, 0)]
    /\ UNCHANGED <<call, latest_day, response, helper, writers>>

\* The caller has seen the job end.
JobEnds ==
    /\ job.name # "idle"
    /\ job' = [JobIdle EXCEPT !.runs = job.runs]
    /\ UNCHANGED <<stats, history, call, passed, latest_day, response, helper, writers>>

\* Midnight (UTC) passes.
NextDay ==
    /\ job.name = "idle"
    /\ call.op = "idle"
    /\ latest_day < MaxDay
    /\ latest_day' = latest_day + 1
    /\ UNCHANGED <<stats, history, call, passed, job, response, helper, writers>>

(***************************************************************************)
(* api/main.py: the read API.  A date is a day number; the model's         *)
(* calendar has months of DaysPerMonth days, day 1 opening the first, and  *)
(* the download snapshot cutoff is the last day of the first month.        *)
(***************************************************************************)
MAX_DAYS == 730
DEFAULT_DAYS == 180
DOWNLOAD_SNAPSHOT_CUTOFF == DaysPerMonth
DOWNLOAD_DAILY_START == DOWNLOAD_SNAPSHOT_CUTOFF + 1
STAR_METRIC_IDS == <<"stars:lance:github", "stars:lancedb:github">>

\* The calendar: day 1 is the first day of the cutoff's month, November 2025,
\* and every month has DaysPerMonth days.
MonthsPerYear == 12
CutoffYear == 2025
CutoffMonth == 11

\* (day.year, day.month)
MonthOf(day) ==
    LET months == (day - 1) \div DaysPerMonth + (CutoffMonth - 1)
    IN  <<CutoffYear + (months \div MonthsPerYear), (months % MonthsPerYear) + 1>>

\* date.isoformat(): the string 'YYYY-MM-DD' of a day.  Two such strings
\* compare as their days do.
IsoFormat(day) == [iso |-> day]

\* What _coerce_date is given: a date, the ISO string of a date, None (also
\* what row.get returns for a missing key), or a string that is no date.
DateCell(day) == [date |-> day]
NoneCell == [none |-> TRUE]
TextCell == [text |-> "n/a"]

\* _coerce_date raises ValueError: strptime of 'None' or of a malformed string
CoerceDateRaises(value) == DOMAIN value \notin {{"date"}, {"iso"}}

\* _coerce_date
CoerceDate(value) == IF DOMAIN value = {"date"} THEN value.date ELSE value.iso

\* models.METRIC_DEFINITIONS as get_metrics_df returns them once seeded, in
\* the order (metric_family, display_name, metric_id) dashboard_daily sorts
\* each product's metrics into.
SeededMetrics ==
    <<[metric_id |-> "downloads:lance:python", metric_family |-> "downloads", product |-> "lance"],
      [metric_id |-> "downloads:lance:rust", metric_family |-> "downloads", product |-> "lance"],
      [metric_id |-> "downloads:lancedb:nodejs", metric_family |-> "downloads", product |-> "lancedb"],
      [metric_id |-> "stars:lance:github", metric_family |-> "stars", product |-> "lance"],
      [metric_id |-> "stars:lancedb:github", metric_family |-> "stars", product |-> "lancedb"]>>

\* A query returns the table's rows as a list, in an order of the store's.
QueryResults(table) ==
    {rows \in [1..Size(table) -> DOMAIN table] : SeqToBag(rows) = table}

\* sorted(rows, key=period_end): Python's sort is stable
SortedByPeriodEnd(rows) ==
    LET before(j, i) == \/ rows[j].period_end < rows[i].period_end
                        \/ rows[j].period_end = rows[i].period_end /\ j < i
        rank(i) == Cardinality({j \in DOMAIN rows : before(j, i)}) + 1
    IN  [k \in DOMAIN rows |-> rows[CHOOSE i \in DOMAIN rows : rank(i) = k]]

\* LanceDBStore.get_stats_for_metric
GetStatsForMetric(stats_rows, metric_id) ==
    SortedByPeriodEnd(SelectSeq(stats_rows, LAMBDA r : r.metric_id = metric_id))

\* _normalize_days
NormalizeDays(days) == Max({1, Min({days, MAX_DAYS})})

\* A mutant: the quotient is cut off, not rounded.
RoundDown(num, den) == num \div den

\* Python's round(num / den) for den > 0: to the nearest integer, a tie to
\* the even one.  The code rounds a double; with the values and spans of
\* this model the double is near enough to num / den for round to return
\* this integer, while with larger ones a quotient on a tie may come out
\* just off it and be rounded to the other neighbour.
RoundHalfEven(num, den) ==
    LET q == num \div den
        r == num % den
    IN  IF 2 * r < den THEN q
        ELSE IF 2 * r > den THEN q + 1
        ELSE IF q % 2 = 0 THEN q ELSE q + 1

\* values_by_period_end: of the rows of one day the last of the sorted list
\* stays in the dict.
ValuesByPeriodEnd(rows) ==
    LET sorted == SortedByPeriodEnd(rows)
    IN  [d \in {sorted[i].period_end : i \in DOMAIN sorted} |->
            sorted[Max({i \in DOMAIN sorted : sorted[i].period_end = d})].value]

\* A mutant: before the first known day the first segment's line is followed.
InterpolateValueExtrapolating(target, known_map) ==
    LET known == DOMAIN known_map
        left == IF target < Min(known) THEN Min(known)
                ELSE Max({d \in known : d <= target})
        others == {d \in known : d > left}
        right == IF others = {} THEN left ELSE Min(others)
    IN  IF target \in known \/ right = left THEN known_map[left]
        ELSE RoundHalfEven(known_map[left] * (right - left) +
                               (known_map[right] - known_map[left]) * (target - left),
                           right - left)

\* _interpolate_value over a non-empty known_map
InterpolateValue(target, known_map) ==
    LET known == DOMAIN known_map
        lefts == {d \in known : d < target}
        rights == {d \in known : d > target}
    IN  IF target \in known THEN known_map[target]
        ELSE IF lefts = {} THEN known_map[Min(known)]
        ELSE IF rights = {} THEN known_map[Max(known)]
        ELSE LET left == Max(lefts)
                 right == Min(rights)
                 span_days == right - left
             IN  RoundHalfEven(known_map[left] * span_days +
                                   (known_map[right] - known_map[left]) * (target - left),
                               span_days)

Point(period_start, period_end, value) ==
    [period_start |-> period_start, period_end |-> period_end, value |-> value]

\* A mutant: only the known days get an entry.
DailyInterpolatedKnownDays(rows) ==
    IF rows = <<>> THEN <<>>
    ELSE LET known_map == ValuesByPeriodEnd(rows)
             rank(d) == Cardinality({e \in DOMAIN known_map : e < d}) + 1
         IN  [k \in 1..Cardinality(DOMAIN known_map) |->
                 LET d == CHOOSE e \in DOMAIN known_map : rank(e) = k
                 IN  Point(d, d, known_map[d])]

\* _daily_interpolated
DailyInterpolated(rows) ==
    IF rows = <<>> THEN <<>>
    ELSE LET known_map == ValuesByPeriodEnd(rows)
             start == Min(DOMAIN known_map)
             end == Max(DOMAIN known_map)
         IN  [i \in 1..(end - start + 1) |->
                 Point(start + i - 1, start + i - 1,
                       InterpolateValue(start + i - 1, known_map))]

\* A mutant: the first entries are kept, not the last.
FirstN(list, days) ==
    IF Len(list) <= days THEN list ELSE SubSeq(list, 1, days)

\* list[-days:]
LastN(list, days) ==
    IF Len(list) <= days THEN list ELSE SubSeq(list, Len(list) - days + 1, Len(list))

\* A point as the API returns it: its dates are ISO strings.
IsoPoint(row) ==
    [period_start |-> IsoFormat(row.period_start),
     period_end |-> IsoFormat(row.period_end), value |-> row.value]

IsoPoints(rows) == [i \in DOMAIN rows |-> IsoPoint(rows[i])]

\* _rows_to_sparkline
RowsToSparkline(rows, days) ==
    IF rows = <<>> THEN <<>> ELSE IsoPoints(LastN(DailyInterpolated(rows), days))

\* The points of a function day -> point, in ascending order of the day.
InDayOrder(points) ==
    LET days == DOMAIN points
        rank(d) == Cardinality({e \in days : e < d}) + 1
    IN  [k \in 1..Cardinality(days) |-> points[CHOOSE d \in days : rank(d) = k]]

\* A mutant: a bucket keeps the value of its last row.
LastValue(rows) == IF rows = <<>> THEN 0 ELSE rows[Len(rows)].value

RECURSIVE SumValues(_)
SumValues(rows) ==
    IF rows = <<>> THEN 0 ELSE Head(rows).value + SumValues(Tail(rows))

\* A mutant: snapshots older than the window stay.
SnapshotRowsAnyDay(rows, window_start) ==
    SelectSeq(rows, LAMBDA r :
        /\ r.period_end <= DOWNLOAD_SNAPSHOT_CUTOFF
        /\ r.source_window = "discrete_snapshot")

\* snapshot_rows: the seed snapshots of the window, up to the cutoff
SnapshotRows(rows, window_start) ==
    SelectSeq(rows, LAMBDA r :
        /\ window_start <= r.period_end
        /\ r.period_end <= DOWNLOAD_SNAPSHOT_CUTOFF
        /\ r.source_window = "discrete_snapshot")

\* A mutant: '1d' rows count from any day on.
DailyRowsAnyDay(rows, latest_day_of_rows, window_start) ==
    SelectSeq(rows, LAMBDA r :
        /\ r.period_end <= latest_day_of_rows
        /\ r.period_end >= window_start
        /\ r.source_window = "1d")

\* daily_rows: the '1d' rows of the window, from the daily start on
DailyRows(rows, latest_day_of_rows, window_start) ==
    SelectSeq(rows, LAMBDA r :
        /\ DOWNLOAD_DAILY_START <= r.period_end
        /\ r.period_end <= latest_day_of_rows
        /\ r.period_end >= window_start
        /\ r.source_window = "1d")

\* _rows_to_monthly_download_sparkline: the snapshot points up to the
\* cutoff, then one point per month of '1d' rows.  A snapshot point and a
\* month's point never end on the same day, so the final sort by period_end
\* has no ties.
RowsToMonthlyDownloadSparkline(rows, days) ==
    IF rows = <<>> THEN <<>>
    ELSE LET latest == Max({rows[i].period_end : i \in DOMAIN rows})
             window_start == latest - (days - 1)
             snapshot_rows == SnapshotRows(rows, window_start)
             snapshot_by_day == IF snapshot_rows = <<>> THEN <<>>
                                ELSE ValuesByPeriodEnd(snapshot_rows)
             daily_rows == DailyRows(rows, latest, window_start)
             months == {MonthOf(daily_rows[i].period_end) : i \in DOMAIN daily_rows}
             bucket(m) == SelectSeq(daily_rows, LAMBDA r : MonthOf(r.period_end) = m)
             ends(m) == {bucket(m)[i].period_end : i \in DOMAIN bucket(m)}
             points ==
                 [d \in DOMAIN snapshot_by_day \cup {Max(ends(m)) : m \in months} |->
                     IF d \in DOMAIN snapshot_by_day
                     THEN Point(d, d, snapshot_by_day[d])
                     ELSE Point(Min(ends(MonthOf(d))), d, SumValues(bucket(MonthOf(d))))]
         IN  IsoPoints(InDayOrder(points))

\* A mutant: January's preceding month is looked for in the same year.
LastFullMonthKeySameYear(reference_day) ==
    <<MonthOf(reference_day)[1], MonthOf(reference_day)[2] - 1>>

\* _last_full_month_key
LastFullMonthKey(reference_day) ==
    LET key == MonthOf(reference_day)
    IN  IF key[2] = 1 THEN <<key[1] - 1, MonthsPerYear>> ELSE <<key[1], key[2] - 1>>

\* _last_full_month_value: <<>> is (None, None).  The candidate is replaced
\* only by a point with a greater period_end string, so of two points of
\* one day the first stays.
LastFullMonthValue(points, reference_day) ==
    LET period_end(i) == CoerceDate(points[i].period_end)
        hits == {i \in DOMAIN points :
                    MonthOf(period_end(i)) = LastFullMonthKey(reference_day)}
        latest == Max({period_end(i) : i \in hits})
    IN  IF hits = {} THEN <<>>
        ELSE <<points[Min({i \in hits : period_end(i) = latest})].value,
               IsoFormat(latest)>>

\* A mutant: a metric adds its value on the days of its own range only.
TotalStarsAggregateOwnDays(stats_rows, days) ==
    LET known_map(m) ==
            LET daily == DailyInterpolated(SelectSeq(stats_rows, LAMBDA r : r.metric_id = m))
            IN  [d \in {daily[i].period_end : i \in DOMAIN daily} |->
                    daily[CHOOSE i \in DOMAIN daily : daily[i].period_end = d].value]
        with_data == {m \in Range(STAR_METRIC_IDS) : DOMAIN known_map(m) # {}}
        all_dates == UNION {DOMAIN known_map(m) : m \in with_data}
        RECURSIVE Total(_, _)
        Total(day, metrics) ==
            IF metrics = {} THEN 0
            ELSE LET m == CHOOSE x \in metrics : TRUE
                 IN  (IF day \in DOMAIN known_map(m) THEN known_map(m)[day] ELSE 0)
                         + Total(day, metrics \ {m})
        totals == InDayOrder([d \in all_dates |-> Point(d, d, Total(d, with_data))])
        tail == LastN(totals, days)
    IN  IF stats_rows = <<>> \/ all_dates = {}
        THEN [total |-> <<>>, sparkline |-> <<>>]
        ELSE [total |-> <<tail[Len(tail)].value>>, sparkline |-> IsoPoints(tail)]

\* _total_stars_aggregate: [total |-> <<>> (None) or <<n>>, sparkline |-> ...]
TotalStarsAggregate(stats_rows, days) ==
    LET known_map(m) ==
            LET daily == DailyInterpolated(SelectSeq(stats_rows, LAMBDA r : r.metric_id = m))
            IN  [d \in {daily[i].period_end : i \in DOMAIN daily} |->
                    daily[CHOOSE i \in DOMAIN daily : daily[i].period_end = d].value]
        with_data == {m \in Range(STAR_METRIC_IDS) : DOMAIN known_map(m) # {}}
        all_dates == UNION {DOMAIN known_map(m) : m \in with_data}
        RECURSIVE Total(_, _)
        Total(day, metrics) ==
            IF metrics = {} THEN 0
            ELSE LET m == CHOOSE x \in metrics : TRUE
                 IN  InterpolateValue(day, known_map(m)) + Total(day, metrics \ {m})
        totals == InDayOrder([d \in all_dates |-> Point(d, d, Total(d, with_data))])
        tail == LastN(totals, days)
    IN  IF stats_rows = <<>> \/ all_dates = {}
        THEN [total |-> <<>>, sparkline |-> <<>>]
        ELSE [total |-> <<tail[Len(tail)].value>>, sparkline |-> IsoPoints(tail)]

\* _overlap_days
OverlapDays(a_start, a_end, b_start, b_end) ==
    LET start == Max({a_start, b_start})
        end == Min({a_end, b_end})
    IN  IF end < start THEN 0 ELSE end - start + 1

\* A mutant: the second part of any id is its product.
DownloadProductAnyPrefix(metric_id) ==
    IF metric_id \in {"downloads:lance:python", "downloads:lance:rust",
                      "stars:lance:github"} THEN "lance"
    ELSE IF metric_id \in {"downloads:lancedb:nodejs", "stars:lancedb:github"}
         THEN "lancedb"
    ELSE IF metric_id = "downloads:duckdb:python" THEN "duckdb"
    ELSE ""

\* metric_id.split(":")[1] of an id that starts with "downloads:" and has
\* three parts or more, "" for any other id
DownloadProduct(metric_id) ==
    IF metric_id \in {"downloads:lance:python", "downloads:lance:rust"} THEN "lance"
    ELSE IF metric_id = "downloads:lancedb:nodejs" THEN "lancedb"
    ELSE IF metric_id = "downloads:duckdb:python" THEN "duckdb"
    ELSE ""

\* row["period_start"]: a row built by to_daily_stat_row spans the one day
\* period_end, and the stored rows of the model carry period_end only.
PeriodStartOf(row) ==
    IF "period_start" \in DOMAIN row THEN row.period_start ELSE row.period_end

\* value * (overlap / span_days) of one row, as the fraction num / den
Share(row, window_start, window_end) ==
    [num |-> row.value * OverlapDays(PeriodStartOf(row), row.period_end,
                                     window_start, window_end),
     den |-> row.period_end - PeriodStartOf(row) + 1]

\* totals[product] += ...: the sum of the fractions, as one fraction
RECURSIVE SumShares(_)
SumShares(shares) ==
    IF shares = <<>> THEN [num |-> 0, den |-> 1]
    ELSE LET rest == SumShares(Tail(shares))
         IN  [num |-> Head(shares).num * rest.den + rest.num * Head(shares).den,
              den |-> Head(shares).den * rest.den]

\* A mutant: the window is 30 days before its end.
Last30dWindowOfThirtyOne(stats_rows, window_end) ==
    [window_start |-> IsoFormat(window_end - 30), window_end |-> IsoFormat(window_end),
     lance |-> 0, lancedb |-> 0]

\* A mutant: every row's share is rounded before it is added.
Last30dRoundedPerRow(stats_rows, window_end) ==
    LET window_start == window_end - 29
        counted(product) ==
            SelectSeq(stats_rows, LAMBDA r :
                /\ DownloadProduct(r.metric_id) = product
                /\ OverlapDays(PeriodStartOf(r), r.period_end,
                               window_start, window_end) > 0
                /\ r.period_end - PeriodStartOf(r) + 1 > 0)
        total(product) ==
            SumShares([i \in DOMAIN counted(product) |->
                LET share == Share(counted(product)[i], window_start, window_end)
                IN  [num |-> RoundHalfEven(share.num, share.den), den |-> 1]])
    IN  [window_start |-> IsoFormat(window_start), window_end |-> IsoFormat(window_end),
         lance |-> total("lance").num, lancedb |-> total("lancedb").num]

\* _last_30d_download_totals: a row counts when it is a download row of the
\* product, overlaps the window and spans at least one day; the sum is
\* rounded once, at the end.
Last30dDownloadTotals(stats_rows, window_end) ==
    LET window_start == window_end - 29
        counted(product) ==
            SelectSeq(stats_rows, LAMBDA r :
                /\ DownloadProduct(r.metric_id) = product
                /\ OverlapDays(PeriodStartOf(r), r.period_end,
                               window_start, window_end) > 0
                /\ r.period_end - PeriodStartOf(r) + 1 > 0)
        total(product) ==
            SumShares([i \in DOMAIN counted(product) |->
                          Share(counted(product)[i], window_start, window_end)])
    IN  [window_start |-> IsoFormat(window_start), window_end |-> IsoFormat(window_end),
         lance |-> RoundHalfEven(total("lance").num, total("lance").den),
         lancedb |-> RoundHalfEven(total("lancedb").num, total("lancedb").den)]

NoResponse == [endpoint |-> "none", fault |-> "none", status |-> 0, body |-> <<>>]

\* An exception leaves the handler: FastAPI answers 500.
ServerError(endpoint, fault) ==
    [endpoint |-> endpoint, fault |-> fault, status |-> 500, body |-> <<>>]

\* GET /api/v1/series/{metric_id}?days=...; fault is the store query that
\* raises.
Series(metric_id, days, metrics_rows, stats_rows, fault) ==
    /\ response = NoResponse
    /\ call.op = "idle"
    /\ job.name = "idle"
    /\ response' =
        IF fault # "none" THEN ServerError("series", fault)
        ELSE IF metrics_rows = <<>> \/
                metric_id \notin {metrics_rows[i].metric_id : i \in DOMAIN metrics_rows}
        THEN [endpoint |-> "series", fault |-> fault, status |-> 404, body |-> <<>>]
        ELSE [endpoint |-> "series", fault |-> fault, status |-> 200,
              body |-> [metric_id |-> metric_id, days |-> NormalizeDays(days),
                        points |-> RowsToSparkline(
                                       GetStatsForMetric(stats_rows, metric_id),
                                       NormalizeDays(days))]]
    /\ UNCHANGED <<storeVars, helper, writers>>

\* One item of a dashboard group.
DashboardItem(metric, metric_stats, days) ==
    LET sparkline == IF metric.metric_family = "downloads"
                     THEN RowsToMonthlyDownloadSparkline(metric_stats, days)
                     ELSE RowsToSparkline(metric_stats, days)
        latest == IF metric.metric_family = "downloads"
                  THEN LastFullMonthValue(sparkline, latest_day)
                  ELSE IF sparkline = <<>> THEN <<>>
                  ELSE <<sparkline[Len(sparkline)].value,
                         sparkline[Len(sparkline)].period_end>>
    IN  [metric_id |-> metric.metric_id, metric_family |-> metric.metric_family,
         latest |-> latest, sparkline |-> sparkline]

DashboardGroup(product, metrics_rows, stats_rows, days) ==
    LET subset_metrics == SelectSeq(metrics_rows, LAMBDA m : m.product = product)
    IN  [product |-> product,
         items |-> [i \in DOMAIN subset_metrics |->
                       DashboardItem(subset_metrics[i],
                           SelectSeq(stats_rows, LAMBDA r :
                               r.metric_id = subset_metrics[i].metric_id),
                           days)]]

\* GET /api/v1/dashboard/daily?days=...
DashboardDaily(days, metrics_rows, stats_rows, fault) ==
    /\ response = NoResponse
    /\ call.op = "idle"
    /\ job.name = "idle"
    /\ response' =
        IF fault # "none" THEN ServerError("dashboard_daily", fault)
        ELSE LET stars == TotalStarsAggregate(stats_rows, NormalizeDays(days))
                 groups == SelectSeq(
                     <<DashboardGroup("lance", metrics_rows, stats_rows, NormalizeDays(days)),
                       DashboardGroup("lancedb", metrics_rows, stats_rows, NormalizeDays(days))>>,
                     LAMBDA g : g.items # <<>>)
             IN  [endpoint |-> "dashboard_daily", fault |-> fault, status |-> 200,
                  body |-> [days |-> NormalizeDays(days),
                            groups |-> groups,
                            total_stars |->
                                IF metrics_rows = <<>> THEN <<>> ELSE stars.total,
                            total_stars_sparkline |->
                                IF metrics_rows = <<>> THEN <<>> ELSE stars.sparkline,
                            last_30d_download_totals |->
                                Last30dDownloadTotals(stats_rows, latest_day)]]
    /\ UNCHANGED <<storeVars, helper, writers>>

\* The client has the response.
ResponseSent ==
    /\ response # NoResponse
    /\ response' = NoResponse
    /\ UNCHANGED <<storeVars, helper, writers>>

(***************************************************************************)
(* The aggregation helpers of api/main.py, called on rows as a caller may  *)
(* hand them over: a row is a dict, a key may be absent, a date may be a   *)
(* date, an ISO string, None or a string that is no date, a value an int   *)
(* or None.                                                                *)
(***************************************************************************)
NoHelperCall == [fn |-> "none"]

\* row.get(key, default)
Get(row, key, default) == IF key \in DOMAIN row THEN row[key] ELSE default

IntCell(v) == [int |-> v]

\* int(None) and float(None) raise TypeError
IntRaises(value) == DOMAIN value # {"int"}

\* int(value), float(value)
IntOf(value) == value.int

\* The helper raised: the exception leaves it, nothing is returned.
HelperRaised == [raised |-> TRUE]
HelperReturned(value) == [raised |-> FALSE, value |-> value]

\* _coerce_date(row.get("period_end"))
PeriodEndCell(row) == Get(row, "period_end", NoneCell)

\* row.get("value", 0)
ValueCell(row) == Get(row, "value", IntCell(0))

\* str(row.get("source_window", ""))
SourceWindowCell(row) == Get(row, "source_window", "")

\* _daily_interpolated raises: the sort key coerces every row's period_end,
\* the loop converts every row's value.
DailyInterpolatedRaises(rows) ==
    \E i \in DOMAIN rows :
        CoerceDateRaises(PeriodEndCell(rows[i])) \/ IntRaises(ValueCell(rows[i]))

\* _daily_interpolated on a caller's rows
DailyInterpolatedOf(rows) ==
    IF DailyInterpolatedRaises(rows) THEN HelperRaised
    ELSE HelperReturned(DailyInterpolated(
             [i \in DOMAIN rows |->
                 [period_end |-> CoerceDate(PeriodEndCell(rows[i])),
                  value |-> IntOf(ValueCell(rows[i]))]]))

\* _rows_to_sparkline on a caller's rows
RowsToSparklineOf(rows, days) ==
    IF DailyInterpolatedRaises(rows) THEN HelperRaised
    ELSE HelperReturned(RowsToSparkline(
             [i \in DOMAIN rows |->
                 [period_end |-> CoerceDate(PeriodEndCell(rows[i])),
                  value |-> IntOf(ValueCell(rows[i]))]], days))

\* The rows whose value _rows_to_monthly_download_sparkline converts: the
\* snapshot rows and the '1d' rows it selects.  window_start <= period_end
\* <= latest_day holds of every row it is asked about with these two tests.
MonthlySelected(row, window_start) ==
    LET period_end == CoerceDate(PeriodEndCell(row))
    IN  /\ window_start <= period_end
        /\ \/ /\ period_end <= DOWNLOAD_SNAPSHOT_CUTOFF
              /\ SourceWindowCell(row) = "discrete_snapshot"
           \/ /\ DOWNLOAD_DAILY_START <= period_end
              /\ SourceWindowCell(row) = "1d"

\* _rows_to_monthly_download_sparkline raises: max() coerces every row's
\* period_end, then the value of every selected row is converted.
MonthlyRaises(rows, days) ==
    \/ \E i \in DOMAIN rows : CoerceDateRaises(PeriodEndCell(rows[i]))
    \/ LET latest == Max({CoerceDate(PeriodEndCell(rows[i])) : i \in DOMAIN rows})
       IN  \E i \in DOMAIN rows :
               /\ MonthlySelected(rows[i], latest - (days - 1))
               /\ IntRaises(ValueCell(rows[i]))

\* _rows_to_monthly_download_sparkline on a caller's rows.  The value of a
\* row that is not selected is never read.
RowsToMonthlyDownloadSparklineOf(rows, days) ==
    IF rows = <<>> THEN HelperReturned(<<>>)
    ELSE IF MonthlyRaises(rows, days) THEN HelperRaised
    ELSE HelperReturned(RowsToMonthlyDownloadSparkline(
             [i \in DOMAIN rows |->
                 [period_end |-> CoerceDate(PeriodEndCell(rows[i])),
                  value |-> IF IntRaises(ValueCell(rows[i])) THEN 0
                            ELSE IntOf(ValueCell(rows[i])),
                  source_window |-> SourceWindowCell(rows[i])]], days))

\* The rows _last_30d_download_totals does not skip at once: the download
\* rows of one of the two products.
ProductRows(rows) ==
    SelectSeq(rows, LAMBDA r :
        DownloadProduct(Get(r, "metric_id", "")) \in {"lance", "lancedb"})

\* _last_30d_download_totals raises: on a product row's period_start or
\* period_end that is no date, or on the None value of a product row that
\* overlaps the window.
Last30dRaises(rows, window_end) ==
    \E i \in DOMAIN ProductRows(rows) :
        LET row == ProductRows(rows)[i]
            period_start == Get(row, "period_start", NoneCell)
        IN  \/ CoerceDateRaises(period_start)
            \/ CoerceDateRaises(PeriodEndCell(row))
            \/ /\ OverlapDays(CoerceDate(period_start), CoerceDate(PeriodEndCell(row)),
                              window_end - 29, window_end) > 0
               /\ CoerceDate(PeriodEndCell(row)) - CoerceDate(period_start) + 1 > 0
               /\ IntRaises(ValueCell(row))

\* _last_30d_download_totals on a caller's rows, window_end being
\* latest_completed_day().  The value of a row outside the window is never
\* read.
Last30dDownloadTotalsOf(rows, window_end) ==
    IF Last30dRaises(rows, window_end) THEN HelperRaised
    ELSE HelperReturned(Last30dDownloadTotals(
             [i \in DOMAIN ProductRows(rows) |->
                 LET row == ProductRows(rows)[i]
                 IN  [metric_id |-> row.metric_id,
                      period_start |-> CoerceDate(row.period_start),
                      period_end |-> CoerceDate(row.period_end),
                      value |-> IF IntRaises(ValueCell(row)) THEN 0
                                ELSE IntOf(ValueCell(row))]], window_end))

\* _total_stars_aggregate raises when _daily_interpolated raises on the
\* rows of one of the star metrics; rows of other metrics are never read.
StarMetricRows(rows, metric_id) ==
    SelectSeq(rows, LAMBDA r : Get(r, "metric_id", None) = metric_id)

TotalStarsAggregateRaises(rows) ==
    \E m \in Range(STAR_METRIC_IDS) : DailyInterpolatedRaises(StarMetricRows(rows, m))

\* _total_stars_aggregate on a caller's rows
TotalStarsAggregateOf(rows, days) ==
    IF TotalStarsAggregateRaises(rows) THEN HelperRaised
    ELSE LET star_rows ==
                 SelectSeq(rows, LAMBDA r :
                     Get(r, "metric_id", None) \in Range(STAR_METRIC_IDS))
         IN  HelperReturned(TotalStarsAggregate(
                 [i \in DOMAIN star_rows |->
                     [metric_id |-> star_rows[i].metric_id,
                      period_end |-> CoerceDate(PeriodEndCell(star_rows[i])),
                      value |-> IntOf(ValueCell(star_rows[i]))]], days))

\* No caller is inside replace_stats.
NoWriters == [phase |-> "none"]

\* One clock reading for each row that has no observed_at.
Clocks(rows) == [{i \in DOMAIN rows : rows[i].observed_at = None} -> ClockReadings]

Singles(S) == {<<>>} \cup {<<r>> : r \in S}

Init ==
    /\ stats = EmptyBag
    /\ history = EmptyBag
    /\ call = Idle
    /\ passed = [id \in RunIds |-> <<>>]
    /\ job = JobIdle
    /\ latest_day = 1
    /\ response = NoResponse
    /\ helper = NoHelperCall
    /\ writers = NoWriters

\* A caller's upsert_stats(rows) on an idle store.
UpsertStats ==
    /\ call.op = "idle"
    /\ \E rows \in Batches : \E clock \in Clocks(rows) : ReplaceStats(rows, clock)

\* The caller repeats the upsert_stats(rows) that just returned.
UpsertStatsAgain ==
    /\ call.op = "replace_stats"
    /\ \E clock \in Clocks(call.rows) : ReplaceStats(call.rows, clock)

AppendOne ==
    /\ call.op = "idle"
    /\ \E rows \in Singles(InputRows) : \E clock \in Clocks(rows) : AppendStats(rows, clock)

Next ==
    \/ UpsertStats
    \/ UpsertStatsAgain
    \/ AppendOne
    \/ Return

Spec == Init /\ [][Next]_vars

UpsertAnyRows ==
    /\ call.op = "idle"
    /\ \E rows \in AnyBatches : \E clock \in Clocks(rows) : ReplaceStats(rows, clock)

AppendAnyRow ==
    /\ call.op = "idle"
    /\ \E rows \in Singles(AnyRows) : \E clock \in Clocks(rows) : AppendStats(rows, clock)

NextAnyRows ==
    \/ UpsertAnyRows
    \/ UpsertStatsAgain
    \/ AppendAnyRow
    \/ Return

SpecAnyRows == Init /\ [][NextAnyRows]_vars

UpsertHistoryCall ==
    \E row \in HistoryRows : \E now \in HistoryClocks(row) : UpsertHistory(row, now)

NextHistory ==
    \/ UpsertHistoryCall
    \/ Return

SpecHistory == Init /\ [][NextHistory]_vars

(***************************************************************************)
(* The ingestion jobs, run one after another as the days pass.             *)
(***************************************************************************)
LookbackChoices == {0, MaxDay - 1, MaxDay}
DailyFaults == {"none", "upsert_stats", "upsert_history"}
SeedFaults == DailyFaults \cup {"upsert_history_once"}

\* What a provider may answer: an error, every day, or every day but the
\* latest (npm is asked for the very days and answers them all); crates.io
\* may also leave out the day before the latest.
ProviderResponses(source) ==
    {FetchError, FetchOk(Days)}
    \cup (IF source = "npm" THEN {} ELSE {FetchOk(Days \ {MaxDay})})
    \cup (IF source = "crates" THEN {FetchOk(Days \ {MaxDay - 1})} ELSE {})

DownloadResponses ==
    {[m \in MetricIdsOf(DOWNLOAD_METRIC_SOURCE_MAP) |->
        IF m = "downloads:lance:python" THEN pypi
        ELSE IF m = "downloads:lance:rust" THEN crates ELSE npm] :
        pypi \in ProviderResponses("pypi"), crates \in ProviderResponses("crates"),
        npm \in ProviderResponses("npm")}

\* GitHub answers both reads, only the snapshot read, or neither.
GithubAnswers ==
    {[snapshot_ok |-> TRUE, events_ok |-> TRUE],
     [snapshot_ok |-> TRUE, events_ok |-> FALSE],
     [snapshot_ok |-> FALSE, events_ok |-> FALSE]}

GithubResponses == [MetricIdsOf(STARS_METRIC_SOURCE_MAP) -> GithubAnswers]

UpdateDailyDownloadsRun ==
    \E lookback_days \in LookbackChoices, responses \in DownloadResponses,
       fault \in DailyFaults, now \in JobClockReadings :
        UpdateDailyDownloads("run-a", lookback_days, responses, fault, now)

UpdateDailyStarsRun ==
    \E lookback_days \in LookbackChoices, github \in GithubResponses,
       fault \in DailyFaults, now \in JobClockReadings :
        UpdateDailyStars("run-b", lookback_days, github, fault, now)

SeedFromCsvRun ==
    \E files_ok \in BOOLEAN, fault \in SeedFaults, now \in JobClockReadings :
        SeedFromCsv("run-c", files_ok, fault, now)

NextJobs ==
    \/ UpdateDailyDownloadsRun
    \/ UpdateDailyStarsRun
    \/ SeedFromCsvRun
    \/ JobEnds
    \/ NextDay

SpecJobs == Init /\ [][NextJobs]_vars

(***************************************************************************)
(* The read API over a store that is being written.                        *)
(***************************************************************************)
RequestDays == {1, 2, DEFAULT_DAYS}
RequestMetricIds == {"downloads:lance:python", "stars:lance:github", "stars:nothing:github"}

\* The metrics table before and after seed_metrics.
MetricsTables == {<<>>, SeededMetrics}

SeriesRequest ==
    \E metric_id \in RequestMetricIds, days \in RequestDays,
       metrics_rows \in MetricsTables, stats_rows \in QueryResults(stats),
       fault \in {"none", "get_metrics_df", "get_stats_for_metric"} :
        Series(metric_id, days, metrics_rows, stats_rows, fault)

DashboardRequest ==
    \E days \in RequestDays, metrics_rows \in MetricsTables,
       stats_rows \in QueryResults(stats),
       fault \in {"none", "get_metrics_df", "get_stats_df"} :
        DashboardDaily(days, metrics_rows, stats_rows, fault)

\* The API may be asked on any day.
InitRead ==
    /\ stats = EmptyBag
    /\ history = EmptyBag
    /\ call = Idle
    /\ passed = [id \in RunIds |-> <<>>]
    /\ job = JobIdle
    /\ latest_day \in Days
    /\ response = NoResponse
    /\ helper = NoHelperCall
    /\ writers = NoWriters

\* The store is written between two requests.
WriteBetweenRequests ==
    /\ response = NoResponse
    /\ UpsertStats

ReturnBetweenRequests ==
    /\ response = NoResponse
    /\ Return

NextRead ==
    \/ WriteBetweenRequests
    \/ ReturnBetweenRequests
    \/ SeriesRequest
    \/ DashboardRequest
    \/ ResponseSent

SpecRead == InitRead /\ [][NextRead]_vars

(***************************************************************************)
(* The aggregation helpers of api/main.py, each called on its own.         *)
(***************************************************************************)
SeriesValues == {0, 1, 3}

SeriesRow(day, value) == [period_end |-> DateCell(day), value |-> IntCell(value)]

\* Well-formed rows of one metric; a date may come as its ISO string.
SeriesRows ==
    {SeriesRow(d, v) : d \in 1..SeriesMaxDay, v \in SeriesValues}
    \cup {[period_end |-> IsoFormat(2), value |-> IntCell(3)]}

\* Rows with a period_end that is None, no date or absent, or with a value
\* that is None; and a row without the key 'value'.
MalformedSeriesRows ==
    {[period_end |-> NoneCell, value |-> IntCell(1)],
     [period_end |-> TextCell, value |-> IntCell(1)],
     [value |-> IntCell(1)],
     [period_end |-> DateCell(2), value |-> NoneCell]}

NoValueRow == [period_end |-> DateCell(2)]

\* One row of S among at most two rows of T, in any position.
OneAmong(S, T) ==
    {<<m>> : m \in S}
    \cup {<<m, w>> : m \in S, w \in T} \cup {<<w, m>> : m \in S, w \in T}
    \cup {<<w, m, x>> : m \in S, w \in T, x \in T}

\* The known points (d0, 100) and (d0 + 10, 200).
TenDaySpan == <<SeriesRow(1, 100), SeriesRow(11, 200)>>

SeriesInputs ==
    SeqsUpTo(SeriesRows, MaxKnown)
    \cup OneAmong(MalformedSeriesRows \cup {NoValueRow}, {SeriesRow(1, 1), SeriesRow(3, 3)})
    \cup {TenDaySpan}

\* known_map of _interpolate_value: the values of a non-empty set of days.
KnownMaps ==
    UNION {[S -> SeriesValues] : S \in SUBSET (1..SeriesMaxDay) \ {{}}}
    \cup {[d \in {1, 11} |-> IF d = 1 THEN 100 ELSE 200],
          [d \in {3, 4} |-> IF d = 3 THEN 50 ELSE 70]}

\* Targets inside and on both sides of the known days.
TargetDays == (0 - SeriesMaxDay)..(2 * SeriesMaxDay + 3)

InterpolateValueCall ==
    /\ helper = NoHelperCall
    /\ \E known_map \in KnownMaps, target \in TargetDays :
        /\ helper' = [fn |-> "_interpolate_value", target |-> target,
                      known_map |-> known_map,
                      out |-> HelperReturned(InterpolateValue(target, known_map))]
        /\ UNCHANGED <<storeVars, response, writers>>

DailyInterpolatedCall ==
    /\ helper = NoHelperCall
    /\ \E rows \in SeriesInputs :
        /\ helper' = [fn |-> "_daily_interpolated", rows |-> rows,
                      out |-> DailyInterpolatedOf(rows)]
        /\ UNCHANGED <<storeVars, response, writers>>

\* The day counts a request may carry, also outside [1, MAX_DAYS].
RequestedDays ==
    (0 - 1)..(SeriesMaxDay + 1) \cup {DEFAULT_DAYS, MAX_DAYS - 1, MAX_DAYS, MAX_DAYS + 1}

\* Rows that tell their day by their value.
SparklineInputs ==
    SeqsUpTo({SeriesRow(d, 10 * d) : d \in 1..SeriesMaxDay}, MaxKnown)

\* series: _rows_to_sparkline(stats_rows, _normalize_days(days))
RowsToSparklineCall ==
    /\ helper = NoHelperCall
    /\ \E rows \in SparklineInputs, requested \in RequestedDays :
        /\ helper' = [fn |-> "_rows_to_sparkline", rows |-> rows,
                      requested |-> requested, days |-> NormalizeDays(requested),
                      out |-> RowsToSparklineOf(rows, NormalizeDays(requested))]
        /\ UNCHANGED <<storeVars, response, writers>>

\* The first and the last day of November 2025 and the first day of
\* December, for snapshots; the last day of November, the first and the
\* last day of December and the first day of January, for '1d' rows.
SnapshotDays == {1, DaysPerMonth, DaysPerMonth + 1}
DailyDays == {DaysPerMonth, DaysPerMonth + 1, 2 * DaysPerMonth, 2 * DaysPerMonth + 1}

MonthlyRow(day, value, source_window) ==
    [period_end |-> DateCell(day), value |-> IntCell(value),
     source_window |-> source_window]

\* Download rows of one metric; a row's value is ten times its day, plus
\* one for a snapshot.
MonthlyRows ==
    {MonthlyRow(d, 10 * d, "1d") : d \in DailyDays}
    \cup {MonthlyRow(d, 10 * d + 1, "discrete_snapshot") : d \in SnapshotDays}

MalformedMonthlyRows ==
    {[period_end |-> NoneCell, value |-> IntCell(1), source_window |-> "1d"],
     [value |-> IntCell(1), source_window |-> "1d"],
     [period_end |-> DateCell(DOWNLOAD_DAILY_START), value |-> NoneCell,
      source_window |-> "1d"],
     [period_end |-> DateCell(1), value |-> NoneCell,
      source_window |-> "discrete_snapshot"]}

\* Snapshots of 2025-10-30 and 2025-11-30, daily rows of 2025-12-01 (100),
\* 2025-12-02 (200) and 2026-01-02 (50).
SnapshotsThenDaily ==
    <<MonthlyRow(0, 1000, "discrete_snapshot"),
      MonthlyRow(DOWNLOAD_SNAPSHOT_CUTOFF, 2000, "discrete_snapshot"),
      MonthlyRow(DOWNLOAD_DAILY_START, 100, "1d"),
      MonthlyRow(DOWNLOAD_DAILY_START + 1, 200, "1d"),
      MonthlyRow(DOWNLOAD_DAILY_START + DaysPerMonth + 1, 50, "1d")>>

MonthlyInputs ==
    SeqsUpTo(MonthlyRows, MaxKnown)
    \cup OneAmong(MalformedMonthlyRows,
                  {MonthlyRow(1, 11, "discrete_snapshot"),
                   MonthlyRow(DOWNLOAD_DAILY_START, 7, "1d")})
    \cup {SnapshotsThenDaily}

MonthlyWindows == {1, DaysPerMonth + 1, DEFAULT_DAYS}

RowsToMonthlyDownloadSparklineCall ==
    /\ helper = NoHelperCall
    /\ \E rows \in MonthlyInputs, days \in MonthlyWindows :
        /\ helper' = [fn |-> "_rows_to_monthly_download_sparkline", rows |-> rows,
                      days |-> days,
                      out |-> RowsToMonthlyDownloadSparklineOf(rows, days)]
        /\ UNCHANGED <<storeVars, response, writers>>

\* The days of December, January and February.
PointDays == (DaysPerMonth + 1)..(4 * DaysPerMonth)

SparklinePoint(day, value) ==
    [period_start |-> IsoFormat(day), period_end |-> IsoFormat(day), value |-> value]

\* Points ending 2026-01-02 (10), 2026-01-31 (20) and 2026-02-10 (30), and
\* the reference day 2026-02-15: the first and the last day of January, the
\* first and the last day of February.
JanuaryPoints ==
    <<SparklinePoint(2 * DaysPerMonth + 1, 10), SparklinePoint(3 * DaysPerMonth, 20),
      SparklinePoint(3 * DaysPerMonth + 1, 30)>>

PointInputs ==
    SeqsUpTo({SparklinePoint(d, 10 * d) : d \in PointDays}, MaxPoints)
    \cup {JanuaryPoints}

LastFullMonthValueCall ==
    /\ helper = NoHelperCall
    /\ \E points \in PointInputs, reference_day \in PointDays :
        /\ helper' = [fn |-> "_last_full_month_value", points |-> points,
                      reference_day |-> reference_day,
                      out |-> HelperReturned(LastFullMonthValue(points, reference_day))]
        /\ UNCHANGED <<storeVars, response, writers>>

SpanRow(metric_id, period_start, period_end, value) ==
    [metric_id |-> metric_id, period_start |-> DateCell(period_start),
     period_end |-> DateCell(period_end), value |-> IntCell(value)]

\* Periods of one to MaxSpan days, and one that ends before it starts.
Periods ==
    {<<s, e>> \in (1..MaxSpan) \X (1..MaxSpan) : s <= e} \cup {<<2, 1>>}

SpanRows ==
    {SpanRow("downloads:lance:python", p[1], p[2], 1) : p \in Periods}
    \cup {SpanRow("downloads:lance:rust", 1, 2, 3),
          SpanRow("downloads:lancedb:nodejs", 1, 2, 1),
          SpanRow("downloads:lancedb:nodejs", 2, 2, 1),
          SpanRow("stars:lance:github", 2, 2, 5),
          SpanRow("downloads:duckdb:python", 2, 2, 5),
          SpanRow("downloads:lance", 2, 2, 5)}

MalformedSpanRows ==
    {[metric_id |-> "downloads:lance:python", period_start |-> NoneCell,
      period_end |-> DateCell(3), value |-> IntCell(1)],
     [metric_id |-> "downloads:lance:python", period_end |-> DateCell(3),
      value |-> IntCell(1)],
     [metric_id |-> "downloads:lance:python", period_start |-> DateCell(3),
      period_end |-> TextCell, value |-> IntCell(1)],
     [metric_id |-> "downloads:lance:python", period_start |-> DateCell(3),
      period_end |-> DateCell(3), value |-> NoneCell],
     [metric_id |-> "downloads:lance:python", period_start |-> DateCell(1),
      period_end |-> DateCell(1), value |-> NoneCell],
     [metric_id |-> "stars:lance:github", period_start |-> NoneCell,
      period_end |-> NoneCell, value |-> NoneCell]}

\* A row 2026-02-01..2026-02-10 of value 100 and a window that opens on
\* 2026-02-05.
TenDayRow == <<SpanRow("downloads:lance:python", 1, 10, 100)>>

SpanInputs ==
    SeqsUpTo(SpanRows, MaxPoints)
    \cup OneAmong(MalformedSpanRows, {SpanRow("downloads:lance:python", 3, 3, 3)})
    \cup {TenDayRow}

\* latest_completed_day(): windows that open on day 2 and on day 3, and
\* for the row of ten days one that opens on day 5
WindowEnds(rows) == IF rows = TenDayRow THEN {34} ELSE {31, 32}

Last30dDownloadTotalsCall ==
    /\ helper = NoHelperCall
    /\ \E rows \in SpanInputs : \E window_end \in WindowEnds(rows) :
        /\ helper' = [fn |-> "_last_30d_download_totals", rows |-> rows,
                      window_end |-> window_end,
                      out |-> Last30dDownloadTotalsOf(rows, window_end)]
        /\ UNCHANGED <<storeVars, response, writers>>

StarSeriesRow(metric_id, day, value) ==
    [metric_id |-> metric_id, period_end |-> DateCell(day), value |-> IntCell(value)]

\* Rows of the two star metrics: lance's with one of two values, lancedb's
\* with ten times the day.
StarSeriesRows ==
    {StarSeriesRow("stars:lance:github", d, v) : d \in 1..StarsMaxDay, v \in {1, 4}}
    \cup {StarSeriesRow("stars:lancedb:github", d, 10 * d) : d \in 1..StarsMaxDay}

\* A download row, which is no star row, and a star row without a date.
OtherStarInputs ==
    {<<StarSeriesRow("downloads:lance:python", 1, 7)>>,
     <<StarSeriesRow("downloads:lance:python", 1, 7),
       StarSeriesRow("stars:lance:github", 2, 4)>>,
     <<[metric_id |-> "downloads:lance:python", period_end |-> NoneCell,
        value |-> NoneCell]>>,
     <<[metric_id |-> "stars:lance:github", period_end |-> NoneCell,
        value |-> IntCell(1)],
       StarSeriesRow("stars:lancedb:github", 2, 20)>>}

\* Up to MaxPoints rows of either metric, or two rows of lance's and one of
\* lancedb's.
StarInputs ==
    SeqsUpTo(StarSeriesRows, MaxPoints)
    \cup {<<r, s, t>> : r \in {x \in StarSeriesRows : x.metric_id = "stars:lance:github"},
                        s \in {x \in StarSeriesRows : x.metric_id = "stars:lance:github"},
                        t \in {x \in StarSeriesRows : x.metric_id = "stars:lancedb:github"}}
    \cup OtherStarInputs

\* dashboard_daily: _total_stars_aggregate(stats_rows, _normalize_days(days))
TotalStarsAggregateCall ==
    /\ helper = NoHelperCall
    /\ \E rows \in StarInputs, days \in {1, 2, DEFAULT_DAYS} :
        /\ helper' = [fn |-> "_total_stars_aggregate", rows |-> rows,
                      days |-> days,
                      out |-> TotalStarsAggregateOf(rows, days)]
        /\ UNCHANGED <<storeVars, response, writers>>

\* jobs.common.days_to_refresh, called on its own: nothing stored or a
\* stored latest day before, on or after the latest completed day, and a
\* lookback that may be negative.
DaysToRefreshCall ==
    /\ helper = NoHelperCall
    /\ \E existing \in {<<>>} \cup {<<d>> : d \in 0..(MaxDay + 1)},
          completed \in Days, lookback_days \in (0 - 1)..(MaxDay + 1) :
        /\ helper' = [fn |-> "days_to_refresh",
                      latest_existing_period_end |-> existing,
                      latest_completed_period_end |-> completed,
                      lookback_days |-> lookback_days,
                      out |-> IF DaysToRefreshRaises(lookback_days) THEN HelperRaised
                              ELSE HelperReturned(
                                       DaysToRefresh(existing, completed, lookback_days))]
        /\ UNCHANGED <<storeVars, response, writers>>

\* The helper's caller has its result.
HelperDone ==
    /\ helper # NoHelperCall
    /\ helper' = NoHelperCall
    /\ UNCHANGED <<storeVars, response, writers>>

NextHelpers ==
    \/ InterpolateValueCall
    \/ DailyInterpolatedCall
    \/ RowsToSparklineCall
    \/ RowsToMonthlyDownloadSparklineCall
    \/ LastFullMonthValueCall
    \/ Last30dDownloadTotalsCall
    \/ TotalStarsAggregateCall
    \/ DaysToRefreshCall
    \/ HelperDone

SpecHelpers == Init /\ [][NextHelpers]_vars

(***************************************************************************)
(* Two callers inside LanceDBStore.replace_stats at once.  A caller        *)
(* normalizes its rows and computes its metric_windows on its own; its     *)
(* steps on the table are one table.delete per metric, in the order the    *)
(* metrics first appear in its batch, and then one table.add.  Each of     *)
(* these is one atomic step; the two callers' steps interleave freely.     *)
(***************************************************************************)
WriterIds == {"a", "b"}

\* The metrics of a batch in the order of their first row: the keys of the
\* dict metric_windows in iteration order.
MetricsInOrder(rows) ==
    LET first(m) == Min({i \in DOMAIN rows : rows[i].metric_id = m})
        rank(m) == Cardinality({n \in BatchMetrics(rows) : first(n) < first(m)}) + 1
    IN  [k \in 1..Cardinality(BatchMetrics(rows)) |->
            CHOOSE m \in BatchMetrics(rows) : rank(m) = k]

\* A caller that has normalized its rows and computed its windows; with no
\* rows it has returned already.
WriterEntered(rows) ==
    [rows |-> rows,
     pending |-> MetricsInOrder(rows),
     pc |-> IF rows = <<>> THEN "done" ELSE "delete"]

\* The rows stored before the two calls: one of every metric and day.
WriterMetricIds ==
    {"downloads:lance:python", "stars:lance:github", "downloads:lancedb:nodejs"}

StoredBefore ==
    [r \in {FullRow(m, d, 0) : m \in WriterMetricIds, d \in 1..WriterMaxDay} |-> 1]

\* An earlier run has filled the table.
SeedStats ==
    /\ writers = NoWriters
    /\ stats = EmptyBag
    /\ stats' = StoredBefore
    /\ UNCHANGED <<history, call, passed, jobVars>>

\* The rows a writer may pass: the first writes the value 1 for its two
\* metrics, the second the value 2 for its two.
WriterRows(w) ==
    IF w = "a"
    THEN {FullRow(m, d, 1) : m \in {"downloads:lance:python", "stars:lance:github"},
                             d \in 1..WriterMaxDay}
    ELSE {FullRow(m, d, 2) : m \in {"downloads:lance:python", "downloads:lancedb:nodejs"},
                             d \in 1..WriterMaxDay}

\* Batches of distinct keys, at most MaxBatch rows.
WriterBatches(w) ==
    {rows \in SeqsUpTo(WriterRows(w), MaxBatch) :
        \A i, j \in DOMAIN rows : i # j => rows[i] # rows[j]}

\* Two callers enter replace_stats.
WritersEnter ==
    /\ writers = NoWriters
    /\ \E a \in WriterBatches("a"), b \in WriterBatches("b") :
           writers' = [phase |-> "running", before |-> stats,
                       a |-> WriterEntered(NormalizeRows(a, <<>>)),
                       b |-> WriterEntered(NormalizeRows(b, <<>>))]
    /\ UNCHANGED <<storeVars, response, helper>>

\* table.delete(predicate) of a writer's next metric
WriterDelete ==
    /\ writers.phase = "running"
    /\ \E w \in WriterIds :
           /\ writers[w].pc = "delete"
           /\ LET m == Head(writers[w].pending)
                  window == MetricWindow(writers[w].rows, m)
                  rest == Tail(writers[w].pending)
              IN  /\ stats' = DeleteWhere(stats,
                                 {r \in DOMAIN stats :
                                     DeletePredicate(r, m, window.min_day, window.max_day)})
                  /\ writers' = [writers EXCEPT
                                    ![w].pending = rest,
                                    ![w].pc = IF rest = <<>> THEN "add" ELSE "delete"]
    /\ UNCHANGED <<history, call, passed, job, latest_day, response, helper>>

\* table.add(normalized_rows, mode="append") of a writer, which then returns
WriterAdd ==
    /\ writers.phase = "running"
    /\ \E w \in WriterIds :
           /\ writers[w].pc = "add"
           /\ stats' = TableAdd(stats, writers[w].rows)
           /\ writers' = [writers EXCEPT ![w].pc = "done"]
    /\ UNCHANGED <<history, call, passed, job, latest_day, response, helper>>

NextWriters ==
    \/ SeedStats
    \/ WritersEnter
    \/ WriterDelete
    \/ WriterAdd

SpecWriters == Init /\ [][NextWriters]_vars

(***************************************************************************)
(* LanceDBStore.create_required_tables and _create_table_ready.  The call  *)
(* in progress is held in the variable call: the index of the table being  *)
(* created, the failed attempts on it, the last error, the tables started  *)
(* and created so far, and how the call ended.                             *)
(***************************************************************************)
EXPECTED_TABLES == <<"metrics", "stats", "history">>
TABLE_READY_MAX_ATTEMPTS == 60

\* An error of db.create_table, by the wording _is_terminal_table_error
\* looks for in its message: a terminal token ('401', 'forbidden',
\* 'schema', ...) and a transient token ('404', '503', 'timed out', ...).
TableErrors == [terminal_token : BOOLEAN, transient_token : BOOLEAN]

NoError == [none |-> TRUE]

\* A mutant: a terminal token decides whatever else the message says.
IsTerminalTableErrorByToken(exc) == exc.terminal_token

\* _is_terminal_table_error
IsTerminalTableError(exc) ==
    IF exc.transient_token THEN FALSE ELSE exc.terminal_token

\* create_required_tables(): the loop is about to start its first table.
CreateRequiredTables ==
    /\ call.op = "idle"
    /\ call' = [op |-> "create_required_tables", table |-> 1, attempts |-> 0,
                last_error |-> NoError, started |-> <<EXPECTED_TABLES[1]>>,
                created |-> <<>>, outcome |-> "running", raised |-> NoError]
    /\ UNCHANGED <<stats, history, passed, jobVars>>

\* db.create_table succeeded: _create_table_ready returns, and the loop of
\* create_required_tables goes on to the next table or ends.
TableCreated ==
    LET created == Append(call.created, EXPECTED_TABLES[call.table])
    IN  IF call.table = Len(EXPECTED_TABLES)
        THEN [call EXCEPT !.created = created, !.outcome = "returned"]
        ELSE [call EXCEPT !.created = created, !.table = call.table + 1,
                          !.attempts = 0, !.last_error = NoError,
                          !.started = Append(call.started,
                                             EXPECTED_TABLES[call.table + 1])]

\* db.create_table raised exc: a terminal error raises RuntimeError at
\* once; otherwise the loop sleeps and goes on, and raises the time-out
\* RuntimeError when range(TABLE_READY_MAX_ATTEMPTS) is used up.
TableFailed(exc) ==
    LET attempts == call.attempts + 1
        failed == [call EXCEPT !.attempts = attempts, !.last_error = exc]
    IN  IF IsTerminalTableError(exc)
        THEN [failed EXCEPT !.outcome = "raised",
                            !.raised = [kind |-> "terminal",
                                        table_name |-> EXPECTED_TABLES[call.table],
                                        error |-> exc]]
        ELSE IF attempts = TABLE_READY_MAX_ATTEMPTS
        THEN [failed EXCEPT !.outcome = "raised",
                            !.raised = [kind |-> "timed_out",
                                        table_name |-> EXPECTED_TABLES[call.table],
                                        error |-> exc]]
        ELSE failed

\* One pass of the loop of _create_table_ready: db.create_table is called
\* and succeeds or raises.
CreateTableAttempt ==
    /\ call.op = "create_required_tables"
    /\ call.outcome = "running"
    /\ \/ call' = TableCreated
       \/ \E exc \in TableErrors : call' = TableFailed(exc)
    /\ UNCHANGED <<stats, history, passed, jobVars>>

\* create_required_tables has returned or raised; the store is idle again.
CreateReturn ==
    /\ call.op = "create_required_tables"
    /\ call.outcome # "running"
    /\ call' = Idle
    /\ UNCHANGED <<stats, history, passed, jobVars>>

NextTables ==
    \/ CreateRequiredTables
    \/ CreateTableAttempt
    \/ CreateReturn

\* The loop is sequential code: once entered, its next pass is taken.
SpecTables == Init /\ [][NextTables]_vars /\ WF_vars(CreateTableAttempt)

(***************************************************************************)
(* Claims about the stats table (Spec and SpecAnyRows).                    *)
(***************************************************************************)
SameKey(a, b) == a.metric_id = b.metric_id /\ a.period_end = b.period_end

DistinctKeys(rows) ==
    \A i, j \in DOMAIN rows : SameKey(rows[i], rows[j]) => i = j

StoredWithKey(b) == RowsWhere(stats, {r \in DOMAIN stats : SameKey(r, b)})

ReplaceReturned == call.op = "replace_stats" /\ call.rows # <<>>

\* C1: after replace_stats/upsert_stats of a non-empty batch with pairwise
\* distinct (metric_id, period_end) keys, every key of the batch has exactly
\* one stored row, and that row carries the batch row's value and tags; no
\* older row with the key is left.
C1_OneRowPerBatchKey ==
    (ReplaceReturned /\ DistinctKeys(call.rows)) =>
        \A i \in DOMAIN call.rows :
            /\ Size(StoredWithKey(call.rows[i])) = 1
            /\ \A r \in DOMAIN StoredWithKey(call.rows[i]) :
                /\ r.value = call.rows[i].value
                /\ r.source_window = call.rows[i].source_window

\* A two-row batch with distinct keys has replaced an older row.
C1_Witness ==
    /\ ReplaceReturned
    /\ DistinctKeys(call.rows)
    /\ Len(call.rows) = 2
    /\ call.deleted > 0
    /\ call.deletedOffKey = 0

AllStamped(rows) == \A i \in DOMAIN rows : rows[i].observed_at # None

\* C2 as stated: calling upsert_stats(batch) a second time, for any batch,
\* leaves the stats table as the first call left it.
C2_IdempotentAnyBatch ==
    [][(call'.op = "replace_stats" /\ call'.again) => stats' = stats]_vars

\* C2, amended: calling upsert_stats(batch) a second time leaves the stats
\* table as the first call left it, for any batch whose rows all carry an
\* observed_at (a row without one is stamped with the clock at each call).
C2_IdempotentStampedBatch ==
    [][(call'.op = "replace_stats" /\ call'.again /\ AllStamped(call'.rows))
          => stats' = stats]_vars

\* The second call of a two-row batch has deleted the first call's rows.
C2_Witness ==
    /\ ReplaceReturned
    /\ call.again
    /\ AllStamped(call.rows)
    /\ Len(call.rows) = 2
    /\ call.deleted = 2

LastWithKey(rows, b) == Max({i \in DOMAIN rows : SameKey(rows[i], b)})

\* C3: when a batch holds several rows of one (metric_id, period_end), after
\* the write exactly one row is stored for the key, and it is the last such
\* row of the batch (last write wins).
C3_LastWriteWins ==
    ReplaceReturned =>
        \A i \in DOMAIN call.rows :
            StoredWithKey(call.rows[i])
                = SetToBag({call.rows[LastWithKey(call.rows, call.rows[i])]})

BatchRowsOf(rows, m) ==
    SeqToBag(SelectSeq(rows, LAMBDA b : b.metric_id = m))

\* C4: after replace_stats, for each metric of the batch, the stored rows of
\* that metric with period_end in [min, max] of the metric's batch rows are
\* exactly the batch's rows of the metric: a stored row inside the range
\* whose period_end is not in the batch is gone.
C4_RangeHoldsExactlyBatch ==
    ReplaceReturned =>
        \A m \in BatchMetrics(call.rows) :
            RowsWhere(stats,
                {r \in DOMAIN stats : /\ r.metric_id = m
                           /\ r.period_end >= MetricWindow(call.rows, m).min_day
                           /\ r.period_end <= MetricWindow(call.rows, m).max_day})
            = BatchRowsOf(call.rows, m)

\* A stored row whose key the batch does not hold has been deleted.
C4_Witness ==
    /\ ReplaceReturned
    /\ call.deletedOffKey > 0

InBatchWindow(rows, r) ==
    /\ r.metric_id \in BatchMetrics(rows)
    /\ r.period_end >= MetricWindow(rows, r.metric_id).min_day
    /\ r.period_end <= MetricWindow(rows, r.metric_id).max_day

\* C5: replace_stats leaves unchanged every stored row of a metric that is
\* not in the batch and every stored row of a batch metric whose period_end
\* is outside that metric's [min, max]; an empty batch leaves the whole table
\* unchanged and returns inserted = 0, updated = 0.
C5_OutsideWindowsUnchanged ==
    [][call'.op = "replace_stats" =>
          /\ \A r \in DOMAIN stats \cup DOMAIN stats' :
                ~InBatchWindow(call'.rows, r) => Count(stats', r) = Count(stats, r)
          /\ call'.rows = <<>> =>
                (stats' = stats /\ call'.ret = [inserted |-> 0, updated |-> 0])]_vars

\* A replace has deleted rows and a row of another metric is still stored.
C5_Witness ==
    /\ ReplaceReturned
    /\ call.deleted > 0
    /\ \E r \in DOMAIN stats : r.metric_id \notin BatchMetrics(call.rows)

(***************************************************************************)
(* Claims about the history table (SpecHistory).                           *)
(***************************************************************************)
HistoryOf(id) == RowsWhere(history, {r \in DOMAIN history : r.ingestion_run_id = id})

\* C6: after any sequence of upsert_history calls the history table holds at
\* most one row per ingestion_run_id, and for each id that row is the row
\* the most recent call with that id passed (a finished_at the caller left
\* None being the clock's reading at that call); an id no call named has no
\* row.
C6_OneRowPerRunId ==
    \A id \in RunIds :
        IF passed[id] = <<>>
        THEN HistoryOf(id) = EmptyBag
        ELSE /\ Size(HistoryOf(id)) = 1
             /\ \A r \in DOMAIN HistoryOf(id) :
                 /\ r.status = passed[id][1].row.status
                 /\ r.rows_inserted = passed[id][1].row.rows_inserted
                 /\ r.finished_at = IF passed[id][1].row.finished_at = None
                                    THEN passed[id][1].now
                                    ELSE passed[id][1].row.finished_at

\* A call has replaced the row of its id while the other id's row stayed.
C6_Witness ==
    /\ call.op = "upsert_history"
    /\ call.deleted = 1
    /\ Size(history) = 2

(***************************************************************************)
(* Claims about the ingestion jobs (SpecJobs).                             *)
(***************************************************************************)
DailyJobs == {"update_daily_downloads", "update_daily_stars"}

CatalogOf(name) ==
    IF name = "update_daily_downloads"
    THEN DOWNLOAD_METRIC_SOURCE_MAP ELSE STARS_METRIC_SOURCE_MAP

RunRecords(table, run_id) == RowsWhere(table, {r \in DOMAIN table : r.ingestion_run_id = run_id})

\* C7: every run of an ingestion job that has ended, by returning or by
\* raising, has invoked finish_run exactly once.
C7_FinalizedExactlyOnce ==
    job.name # "idle" => job.finish_calls = 1

\* C8: when upsert_stats raises in a daily job, the history table still gets
\* a record of that run with status 'partial' or 'failed'.
C8_WriteFailureRecorded ==
    (job.name \in DailyJobs /\ job.fault = "upsert_stats") =>
        \E r \in DOMAIN RunRecords(history, job.run_id) :
            r.status \in {"partial", "failed"}

RaisedFor(errors, metric_id) ==
    \E i \in DOMAIN errors :
        errors[i].metric_id = metric_id /\ errors[i].kind = "exception"

\* The days of a metric the run owes a row: its target days, less the days
\* crates.io left out of its answer.
OwedDays(table, day, entry, lookback_days, env) ==
    {d \in Range(DaysToRefresh(LatestPeriodEndForMetric(table, entry.metric_id),
                               day, lookback_days)) :
        entry.source = "crates" => d \in DOMAIN env[entry.metric_id].totals}

\* C9: in a daily job that returns, the loop has visited every metric of the
\* catalog whichever of them raised; every metric that did not raise has one
\* stored row, stamped by this run, for each day it was to refresh; the
\* run's record is 'success' with no error_summary exactly when no error
\* was collected and 'partial' with a non-empty error_summary otherwise;
\* and the returned errors count is the number of collected errors.
C9_ErrorsDoNotAbortOtherMetrics ==
    [][(job'.name \in DailyJobs /\ job'.outcome = "returned") =>
        LET catalog == CatalogOf(job'.name)
            errors == job'.errors
        IN  /\ job'.visited = [i \in DOMAIN catalog |-> catalog[i].metric_id]
            /\ \A i \in DOMAIN catalog :
                ~RaisedFor(errors, catalog[i].metric_id) =>
                    \A d \in OwedDays(stats, latest_day, catalog[i],
                                      job'.lookback_days, job'.env) :
                        /\ Size(RowsWhere(stats', {r \in DOMAIN stats' :
                               r.metric_id = catalog[i].metric_id /\ r.period_end = d})) = 1
                        /\ \E k \in DOMAIN job'.rows :
                               /\ job'.rows[k].metric_id = catalog[i].metric_id
                               /\ job'.rows[k].period_end = d
                               /\ Count(stats', job'.rows[k]) = 1
            /\ Size(RunRecords(history', job'.run_id)) = 1
            /\ \A r \in DOMAIN RunRecords(history', job'.run_id) :
                /\ r.status = IF errors = <<>> THEN "success" ELSE "partial"
                /\ r.error_summary.none <=> errors = <<>>
                /\ errors # <<>> => r.error_summary.parts # <<>>
            /\ job'.ret.errors = Len(errors)
      ]_vars

\* A downloads run in which the first metric raised and the last one was
\* written all the same, the run being recorded as partial.
C9_Witness ==
    /\ job.name = "update_daily_downloads"
    /\ job.outcome = "returned"
    /\ RaisedFor(job.errors, DOWNLOAD_METRIC_SOURCE_MAP[1].metric_id)
    /\ \E k \in DOMAIN job.rows :
        /\ job.rows[k].metric_id = DOWNLOAD_METRIC_SOURCE_MAP[3].metric_id
        /\ Count(stats, job.rows[k]) = 1
    /\ \E r \in DOMAIN RunRecords(history, job.run_id) : r.status = "partial"

\* The rows a run collected for a metric, and the stargazer events dated
\* before the end of a day.
RowsFor(rows, metric_id) == SelectSeq(rows, LAMBDA r : r.metric_id = metric_id)

EventsUpTo(day) ==
    Cardinality({i \in DOMAIN StargazerEvents : StargazerEvents[i] <= day})

FellBackFor(errors, metric_id) ==
    \E i \in DOMAIN errors :
        errors[i].metric_id = metric_id /\ errors[i].kind = "fell back to snapshot"

KeysStored(table) == {<<r.metric_id, r.period_end>> : r \in DOMAIN table}

\* C29: every (metric_id, period_end) key stored before a run of
\* update_daily_downloads is still stored after it, whatever the
\* lookback_days and whatever the providers answer.
C29_RefreshKeepsStoredDays ==
    [][job'.name = "update_daily_downloads" =>
          KeysStored(stats) \subseteq KeysStored(stats')]_vars

ErroredFor(errors, metric_id) ==
    \E i \in DOMAIN errors : errors[i].metric_id = metric_id

\* The stored rows of a metric.
StoredOf(table, metric_id) ==
    RowsWhere(table, {r \in DOMAIN table : r.metric_id = metric_id})

\* A daily job has run and its upsert_stats did not raise.
DailyRunWrote ==
    job'.name \in DailyJobs /\ job'.fault # "upsert_stats"

\* For a pypi, npm or stars metric the run processed without error: a row
\* of this run is stored for every day after the metric's previously stored
\* latest period_end up to the latest completed day; and when that latest
\* period_end is the latest completed day and lookback_days = 0, the run
\* has no row for the metric and the metric's stored rows are unchanged.
CatchesUpAndSettles(entry) ==
    LET m == entry.metric_id
        latest_existing == LatestPeriodEndForMetric(stats, m)
        rows == RowsFor(job'.rows, m)
    IN  (entry.source # "crates" /\ ~ErroredFor(job'.errors, m)) =>
            /\ latest_existing # <<>> =>
                   \A d \in (latest_existing[1] + 1)..latest_day :
                       /\ Size(RowsWhere(stats', {r \in DOMAIN stats' :
                              r.metric_id = m /\ r.period_end = d})) = 1
                       /\ \E k \in DOMAIN rows :
                              rows[k].period_end = d /\ Count(stats', rows[k]) = 1
            /\ (latest_existing = <<latest_day>> /\ job'.lookback_days = 0) =>
                   /\ rows = <<>>
                   /\ StoredOf(stats', m) = StoredOf(stats, m)

\* C30 as amended: CatchesUpAndSettles for every pypi, npm and stars metric
\* of a daily run, the stats table as a whole being unchanged when the run
\* has no row for any metric.
C30_CatchesUpThenMetricSettles ==
    [][DailyRunWrote =>
          /\ \A i \in DOMAIN CatalogOf(job'.name) :
                 CatchesUpAndSettles(CatalogOf(job'.name)[i])
          /\ job'.rows = <<>> => stats' = stats]_vars

\* C30 as stated: CatchesUpAndSettles, and the further run with
\* lookback_days = 0 for the same latest completed day leaves the whole
\* stats table unchanged.
C30_CatchesUpThenTableSettles ==
    [][DailyRunWrote =>
          \A i \in DOMAIN CatalogOf(job'.name) :
              LET entry == CatalogOf(job'.name)[i]
              IN  /\ CatchesUpAndSettles(entry)
                  /\ (/\ entry.source # "crates"
                      /\ ~ErroredFor(job'.errors, entry.metric_id)
                      /\ LatestPeriodEndForMetric(stats, entry.metric_id)
                             = <<latest_day>>
                      /\ job'.lookback_days = 0) => stats' = stats]_vars

\* A second run, without lookback, two days after the first: the pypi
\* metric's two missing days are written, and the npm metric, stored up to
\* the latest completed day, gets no row.
C30_Witness ==
    /\ job.name = "update_daily_downloads"
    /\ job.outcome = "returned"
    /\ job.lookback_days = 0
    /\ job.runs = 2
    /\ ~ErroredFor(job.errors, "downloads:lance:python")
    /\ Len(RowsFor(job.rows, "downloads:lance:python")) = 2
    /\ \A k \in DOMAIN job.rows : Count(stats, job.rows[k]) = 1
    /\ \E r \in DOMAIN StoredOf(stats, "downloads:lance:python") :
           r.period_end = latest_day - 2

(***************************************************************************)
(* Claims about the read API (SpecRead).                                   *)
(***************************************************************************)
\* C10: a store query that raises while series or dashboard_daily runs is
\* answered like an empty store: status 200 with no points, no groups, no
\* star total and zero download totals.
C10_StoreErrorIsNoData ==
    (response.endpoint \in {"series", "dashboard_daily"} /\ response.fault # "none") =>
        /\ response.status = 200
        /\ response.endpoint = "series" => response.body.points = <<>>
        /\ response.endpoint = "dashboard_daily" =>
            /\ response.body.groups = <<>>
            /\ response.body.total_stars = <<>>
            /\ response.body.total_stars_sparkline = <<>>
            /\ response.body.last_30d_download_totals.lance = 0
            /\ response.body.last_30d_download_totals.lancedb = 0

(***************************************************************************)
(* Claims about the aggregation helpers of the read API (SpecHelpers).     *)
(***************************************************************************)
Abs(x) == IF x < 0 THEN 0 - x ELSE x

\* A row a helper can use: its period_end (for the 30-day totals also its
\* period_start) is a date, and its value is not None.
WellFormedFor(fn, row) ==
    /\ ~CoerceDateRaises(PeriodEndCell(row))
    /\ fn = "_last_30d_download_totals" =>
           ~CoerceDateRaises(Get(row, "period_start", NoneCell))
    /\ ValueCell(row) # NoneCell

Remaining(fn, rows) == SelectSeq(rows, LAMBDA r : WellFormedFor(fn, r))

AllWellFormed(fn, rows) == \A i \in DOMAIN rows : WellFormedFor(fn, rows[i])

\* C11: _daily_interpolated, _rows_to_monthly_download_sparkline and
\* _last_30d_download_totals skip a row whose period_end or period_start is
\* malformed or missing or whose value is None: they raise nothing and
\* return what they return for the remaining rows.
C11_MalformedRowsSkipped ==
    /\ helper.fn = "_daily_interpolated" =>
           helper.out = DailyInterpolatedOf(Remaining(helper.fn, helper.rows))
    /\ helper.fn = "_rows_to_monthly_download_sparkline" =>
           helper.out = RowsToMonthlyDownloadSparklineOf(
                            Remaining(helper.fn, helper.rows), helper.days)
    /\ helper.fn = "_last_30d_download_totals" =>
           helper.out = Last30dDownloadTotalsOf(
                            Remaining(helper.fn, helper.rows), helper.window_end)

KnownDaysOf(rows) == {CoerceDate(PeriodEndCell(rows[i])) : i \in DOMAIN rows}

\* _daily_interpolated has been called on a non-empty list of usable rows.
DailyCall ==
    /\ helper.fn = "_daily_interpolated"
    /\ helper.rows # <<>>
    /\ AllWellFormed(helper.fn, helper.rows)

\* C12: for a non-empty list of rows of one metric, in any order,
\* _daily_interpolated returns one entry per day from the earliest to the
\* latest period_end, in ascending order, none missing or repeated, each
\* with period_start = period_end.
C12_OneEntryPerDay ==
    DailyCall =>
        /\ ~helper.out.raised
        /\ LET out == helper.out.value
               start == Min(KnownDaysOf(helper.rows))
               end == Max(KnownDaysOf(helper.rows))
           IN  /\ Len(out) = end - start + 1
               /\ \A k \in DOMAIN out :
                      /\ out[k].period_end = start + k - 1
                      /\ out[k].period_start = out[k].period_end

\* The rows came out of order and with a gap between their days.
C12_Witness ==
    /\ DailyCall
    /\ Len(helper.rows) >= 2
    /\ CoerceDate(PeriodEndCell(helper.rows[1])) >
           CoerceDate(PeriodEndCell(helper.rows[Len(helper.rows)]))
    /\ Len(helper.out.value) > Cardinality(KnownDaysOf(helper.rows))

\* The value the rows give a known day: of two rows of one day the later
\* in the list.
StoredValue(rows, day) ==
    IntOf(ValueCell(rows[Max({i \in DOMAIN rows :
                                 CoerceDate(PeriodEndCell(rows[i])) = day})]))

\* C13: in the interpolated series a known day carries its stored value; a
\* day between two consecutive known days l < r carries a nearest integer
\* of v_l + (v_r - v_l) * (day - l) / (r - l), which lies between v_l and
\* v_r; known points (d0, 100) and (d0 + 10, 200) give 150 on d0 + 5.
C13_ExactOnKnownDaysNearestBetween ==
    DailyCall =>
        LET out == helper.out.value
            known == KnownDaysOf(helper.rows)
        IN  /\ \A k \in DOMAIN out :
                   LET day == out[k].period_end
                       v == out[k].value
                   IN  IF day \in known THEN v = StoredValue(helper.rows, day)
                       ELSE LET l == Max({x \in known : x < day})
                                r == Min({x \in known : x > day})
                                v_l == StoredValue(helper.rows, l)
                                v_r == StoredValue(helper.rows, r)
                            IN  /\ 2 * Abs(v * (r - l) -
                                           (v_l * (r - l) + (v_r - v_l) * (day - l)))
                                       <= r - l
                                /\ Min({v_l, v_r}) <= v
                                /\ v <= Max({v_l, v_r})
            /\ helper.rows = TenDaySpan =>
                   /\ out[6].period_end = 6
                   /\ out[6].value = 150

\* A day between two known days whose exact value is no integer.
C13_Witness ==
    /\ DailyCall
    /\ LET known == KnownDaysOf(helper.rows)
       IN  \E day \in Min(known)..Max(known) :
               /\ day \notin known
               /\ LET l == Max({x \in known : x < day})
                      r == Min({x \in known : x > day})
                  IN  ((StoredValue(helper.rows, r) - StoredValue(helper.rows, l))
                           * (day - l)) % (r - l) # 0

\* C14: _interpolate_value never extrapolates: before the first known day
\* it returns the first known day's value, after the last known day the
\* last one's, whatever the distance.
C14_ClampsOutsideKnownDays ==
    helper.fn = "_interpolate_value" =>
        LET known == DOMAIN helper.known_map
        IN  /\ helper.target < Min(known) =>
                   helper.out.value = helper.known_map[Min(known)]
            /\ helper.target > Max(known) =>
                   helper.out.value = helper.known_map[Max(known)]

\* A target more than a day before the first of several known days with
\* different values.
C14_Witness ==
    /\ helper.fn = "_interpolate_value"
    /\ LET known == DOMAIN helper.known_map
       IN  /\ Cardinality(known) >= 2
           /\ helper.target < Min(known) - 1
           /\ helper.known_map[Min(known)] # helper.known_map[Max(known)]
           /\ helper.out.value = helper.known_map[Min(known)]

\* C15: _rows_to_sparkline returns the last N entries of the interpolated
\* daily series in chronological order, or the whole series when it has
\* fewer than N, N being the requested day count clamped into
\* [1, MAX_DAYS].
C15_LastNDays ==
    helper.fn = "_rows_to_sparkline" =>
        /\ helper.days = (IF helper.requested < 1 THEN 1
                          ELSE IF helper.requested > 730 THEN 730
                          ELSE helper.requested)
        /\ ~helper.out.raised
        /\ IF helper.rows = <<>> THEN helper.out.value = <<>>
           ELSE LET out == helper.out.value
                    series == DailyInterpolatedOf(helper.rows).value
                    end == Max(KnownDaysOf(helper.rows))
                    n == Min({helper.days, Len(series)})
                IN  /\ Len(out) = n
                    /\ \A k \in 1..n :
                           /\ out[k].period_end = IsoFormat(end - n + k)
                           /\ out[k].period_start = out[k].period_end
                           /\ out[k].value = series[Len(series) - n + k].value

\* The series is longer than the day count, which is two or more.
C15_Witness ==
    /\ helper.fn = "_rows_to_sparkline"
    /\ helper.days >= 2
    /\ Len(helper.out.value) = helper.days
    /\ Max(KnownDaysOf(helper.rows)) - Min(KnownDaysOf(helper.rows)) + 1 > helper.days

\* The sum and the product of the values of a function with a finite domain.
RECURSIVE SumFn(_)
SumFn(f) ==
    IF DOMAIN f = {} THEN 0
    ELSE LET x == CHOOSE y \in DOMAIN f : TRUE
         IN  f[x] + SumFn([y \in DOMAIN f \ {x} |-> f[y]])

RECURSIVE ProdFn(_)
ProdFn(f) ==
    IF DOMAIN f = {} THEN 1
    ELSE LET x == CHOOSE y \in DOMAIN f : TRUE
         IN  f[x] * ProdFn([y \in DOMAIN f \ {x} |-> f[y]])

\* 2025-11-30 and 2025-12-01 in the model's calendar, and the number of a
\* day's month, counted from November 2025.
Nov30 == DaysPerMonth
Dec01 == DaysPerMonth + 1
MonthIndex(day) == (day - 1) \div DaysPerMonth

RowDay(row) == CoerceDate(PeriodEndCell(row))
RowValue(row) == IntOf(ValueCell(row))

\* _rows_to_monthly_download_sparkline has been called on a non-empty list
\* of usable rows.
MonthlyCall ==
    /\ helper.fn = "_rows_to_monthly_download_sparkline"
    /\ helper.rows # <<>>
    /\ AllWellFormed(helper.fn, helper.rows)

\* window_start = latest period_end of the input - (days - 1)
WindowStart ==
    Max({RowDay(helper.rows[i]) : i \in DOMAIN helper.rows}) - (helper.days - 1)

\* The snapshot rows and the '1d' rows the claims let into the output.
SnapshotsInWindow ==
    {i \in DOMAIN helper.rows :
        /\ SourceWindowCell(helper.rows[i]) = "discrete_snapshot"
        /\ WindowStart <= RowDay(helper.rows[i])
        /\ RowDay(helper.rows[i]) <= Nov30}

DailyInWindow ==
    {i \in DOMAIN helper.rows :
        /\ SourceWindowCell(helper.rows[i]) = "1d"
        /\ RowDay(helper.rows[i]) >= Max({Dec01, WindowStart})}

\* Of the snapshot rows of one day the last in the list gives the value.
LastSnapshotOf(day) ==
    Max({i \in SnapshotsInWindow : RowDay(helper.rows[i]) = day})

\* C16: every snapshot point of the monthly sparkline ends on or before
\* 2025-11-30 and every monthly point starts on or after 2025-12-01; the
\* values of the points add up to the snapshots of the window up to the
\* cutoff plus the '1d' rows from the daily start on, so no row counts
\* twice, and a snapshot after the cutoff or a '1d' row before the daily
\* start counts nowhere.
C16_SnapshotsAndRollupsPartitioned ==
    MonthlyCall =>
        /\ ~helper.out.raised
        /\ LET out == helper.out.value
           IN  /\ \A k \in DOMAIN out :
                      \/ /\ CoerceDate(out[k].period_end) <= Nov30
                         /\ out[k].period_start = out[k].period_end
                      \/ CoerceDate(out[k].period_start) >= Dec01
               /\ SumFn([k \in DOMAIN out |-> out[k].value]) =
                      SumFn([d \in {RowDay(helper.rows[i]) : i \in SnapshotsInWindow} |->
                                RowValue(helper.rows[LastSnapshotOf(d)])])
                      + SumFn([i \in DailyInWindow |-> RowValue(helper.rows[i])])

\* A snapshot dated after the cutoff and a '1d' row dated before the daily
\* start, both inside the window, beside a row that makes a point.
C16_Witness ==
    /\ MonthlyCall
    /\ \E i \in DOMAIN helper.rows :
           /\ SourceWindowCell(helper.rows[i]) = "discrete_snapshot"
           /\ RowDay(helper.rows[i]) > Nov30
    /\ \E i \in DOMAIN helper.rows :
           /\ SourceWindowCell(helper.rows[i]) = "1d"
           /\ RowDay(helper.rows[i]) <= Nov30
           /\ RowDay(helper.rows[i]) >= WindowStart
    /\ Len(helper.out.value) = 1

\* C17: the '1d' rows with period_end in [max(2025-12-01, window_start),
\* latest period_end] give one point per month that has such a row: its
\* value is the sum of the month's rows, its period_start their earliest
\* and its period_end their latest day.  Snapshots of 2025-10-30 and
\* 2025-11-30 with daily rows 2025-12-01 (100), 2025-12-02 (200) and
\* 2026-01-02 (50) give four points, the last two 300 and 50.
C17_OnePointPerMonthOfDailyRows ==
    MonthlyCall =>
        LET out == helper.out.value
            months == {MonthIndex(RowDay(helper.rows[i])) : i \in DailyInWindow}
            rollups == {k \in DOMAIN out : CoerceDate(out[k].period_start) >= Dec01}
        IN  /\ Cardinality(rollups) = Cardinality(months)
            /\ \A m \in months :
                   LET group == {i \in DailyInWindow :
                                    MonthIndex(RowDay(helper.rows[i])) = m}
                       days == {RowDay(helper.rows[i]) : i \in group}
                   IN  \E k \in rollups :
                           /\ out[k].period_start = IsoFormat(Min(days))
                           /\ out[k].period_end = IsoFormat(Max(days))
                           /\ out[k].value =
                                  SumFn([i \in group |-> RowValue(helper.rows[i])])
            /\ (helper.rows = SnapshotsThenDaily /\ helper.days = 180) =>
                   /\ Len(out) = 4
                   /\ out[3] = [period_start |-> IsoFormat(Dec01),
                                period_end |-> IsoFormat(Dec01 + 1), value |-> 300]
                   /\ out[4] = [period_start |-> IsoFormat(Dec01 + DaysPerMonth + 1),
                                period_end |-> IsoFormat(Dec01 + DaysPerMonth + 1),
                                value |-> 50]

\* Two months of '1d' rows, one of them with rows of two days.
C17_Witness ==
    /\ MonthlyCall
    /\ Cardinality({MonthIndex(RowDay(helper.rows[i])) : i \in DailyInWindow}) = 2
    /\ \E i, j \in DailyInWindow :
           /\ RowDay(helper.rows[i]) < RowDay(helper.rows[j])
           /\ MonthIndex(RowDay(helper.rows[i])) = MonthIndex(RowDay(helper.rows[j]))
    /\ Len(helper.out.value) = 2

\* C18: the monthly sparkline is sorted ascending by period_end; no point
\* starts before window_start = latest period_end - (days - 1); a snapshot
\* inside the window is a point of its own day with its own value.
C18_SortedWithinWindow ==
    MonthlyCall =>
        LET out == helper.out.value
        IN  /\ \A k \in DOMAIN out : \A l \in DOMAIN out :
                   k < l => CoerceDate(out[k].period_end) <= CoerceDate(out[l].period_end)
            /\ \A k \in DOMAIN out : CoerceDate(out[k].period_start) >= WindowStart
            /\ \A i \in SnapshotsInWindow :
                   \E k \in DOMAIN out :
                       out[k] = [period_start |-> IsoFormat(RowDay(helper.rows[i])),
                                 period_end |-> IsoFormat(RowDay(helper.rows[i])),
                                 value |-> RowValue(helper.rows[
                                               LastSnapshotOf(RowDay(helper.rows[i]))])]

\* A snapshot older than the window, a snapshot inside it, and a monthly
\* point after them.
C18_Witness ==
    /\ MonthlyCall
    /\ \E i \in DOMAIN helper.rows :
           /\ SourceWindowCell(helper.rows[i]) = "discrete_snapshot"
           /\ RowDay(helper.rows[i]) < WindowStart
    /\ SnapshotsInWindow # {}
    /\ DailyInWindow # {}
    /\ Len(helper.out.value) = 2

\* C19: _last_full_month_value returns the value and period_end of the
\* point with the latest period_end among the points that end in the month
\* before the reference day's month (December of the year before when the
\* reference month is January), and (None, None) when there is none.
\* Points ending 2026-01-02 (10), 2026-01-31 (20), 2026-02-10 (30) and the
\* reference day 2026-02-15 give 20.
C19_LatestPointOfPrecedingMonth ==
    helper.fn = "_last_full_month_value" =>
        LET points == helper.points
            day(i) == CoerceDate(points[i].period_end)
            hits == {i \in DOMAIN points :
                        MonthIndex(day(i)) = MonthIndex(helper.reference_day) - 1}
        IN  /\ IF hits = {} THEN helper.out.value = <<>>
               ELSE \E i \in hits :
                        /\ \A j \in hits : day(j) <= day(i)
                        /\ helper.out.value = <<points[i].value, points[i].period_end>>
            /\ (points = JanuaryPoints /\ helper.reference_day = 4 * DaysPerMonth) =>
                   helper.out.value = <<20, IsoFormat(3 * DaysPerMonth)>>

\* The reference day lies in January 2026 and two points end on different
\* days of December 2025.
C19_Witness ==
    /\ helper.fn = "_last_full_month_value"
    /\ MonthIndex(helper.reference_day) = 2
    /\ Len(helper.points) = 2
    /\ MonthIndex(CoerceDate(helper.points[1].period_end)) = 1
    /\ MonthIndex(CoerceDate(helper.points[2].period_end)) = 1
    /\ helper.points[1].period_end # helper.points[2].period_end
    /\ helper.out.value # <<>>

\* _last_30d_download_totals has been called on usable rows.
SpanCall ==
    /\ helper.fn = "_last_30d_download_totals"
    /\ AllWellFormed(helper.fn, helper.rows)

SpanStart(row) == CoerceDate(row.period_start)

\* overlap_days = max(0, min(period_end, window_end)
\*                       - max(period_start, window_start) + 1)
ClaimedOverlap(row) ==
    Max({0, Min({RowDay(row), helper.window_end})
               - Max({SpanStart(row), helper.window_end - 29}) + 1})

\* span_days = period_end - period_start + 1
ClaimedSpan(row) == RowDay(row) - SpanStart(row) + 1

\* The rows of a product that span at least one day.
RowsOfProduct(product) ==
    {i \in DOMAIN helper.rows :
        /\ DownloadProduct(helper.rows[i].metric_id) = product
        /\ ClaimedSpan(helper.rows[i]) > 0}

\* C20: each product total of _last_30d_download_totals is the sum over
\* the product's download rows of value * overlap_days / span_days, rounded
\* to a nearest integer once, after summing; the total of one row lies
\* between 0 and its value, and is its value when the row lies inside the
\* window; a row 2026-02-01..2026-02-10 of value 100 and a window that
\* opens on 2026-02-05 give 60.
C20_SharesSummedThenRounded ==
    SpanCall =>
        /\ ~helper.out.raised
        /\ \A product \in {"lance", "lancedb"} :
               LET rows == helper.rows
                   of == RowsOfProduct(product)
                   den == ProdFn([i \in of |-> ClaimedSpan(rows[i])])
                   num == SumFn([i \in of |->
                              RowValue(rows[i]) * ClaimedOverlap(rows[i])
                                  * (den \div ClaimedSpan(rows[i]))])
                   total == helper.out.value[product]
               IN  /\ 2 * Abs(total * den - num) <= den
                   /\ \A i \in of :
                          of = {i} =>
                              /\ 0 <= total
                              /\ total <= RowValue(rows[i])
                              /\ (/\ helper.window_end - 29 <= SpanStart(rows[i])
                                  /\ RowDay(rows[i]) <= helper.window_end)
                                     => total = RowValue(rows[i])
        /\ (helper.rows = TenDayRow /\ helper.window_end = 34) =>
               helper.out.value.lance = 60

\* Two rows of one product that each bring half a download: the total is 1.
C20_Witness ==
    /\ SpanCall
    /\ Len(helper.rows) = 2
    /\ \A i \in DOMAIN helper.rows :
           /\ DownloadProduct(helper.rows[i].metric_id) = "lance"
           /\ RowValue(helper.rows[i]) = 1
           /\ ClaimedSpan(helper.rows[i]) = 2
           /\ ClaimedOverlap(helper.rows[i]) = 1
    /\ helper.out.value.lance = 1

\* The metric ids of the form downloads:<product>:... with product 'lance'
\* or 'lancedb'.
ProductMetricIds ==
    {"downloads:lance:python", "downloads:lance:rust", "downloads:lancedb:nodejs"}

OfAProduct(row) == Get(row, "metric_id", "") \in ProductMetricIds

\* A row of a product that has no day in common with the window, or whose
\* period_end is before its period_start.
OutsideOrReversed(row) ==
    /\ OfAProduct(row)
    /\ ~CoerceDateRaises(Get(row, "period_start", NoneCell))
    /\ ~CoerceDateRaises(PeriodEndCell(row))
    /\ \/ ClaimedOverlap(row) = 0
       \/ ClaimedSpan(row) <= 0

Contributing(rows) ==
    SelectSeq(rows, LAMBDA r : OfAProduct(r) /\ ~OutsideOrReversed(r))

\* C21: in _last_30d_download_totals a product's row outside the window or
\* with period_end before period_start, and a row of no product, change no
\* total and raise nothing, whatever their value: the call returns what it
\* returns without them, and totals of 0 when no other row is passed.
C21_RowsOutsideContributeNothing ==
    (/\ helper.fn = "_last_30d_download_totals"
     /\ AllWellFormed(helper.fn, Contributing(helper.rows))) =>
        /\ ~helper.out.raised
        /\ helper.out = Last30dDownloadTotalsOf(Contributing(helper.rows),
                                                helper.window_end)
        /\ Contributing(helper.rows) = <<>> =>
               /\ helper.out.value.lance = 0
               /\ helper.out.value.lancedb = 0

\* A call on a row whose period_end is before its period_start and a stars
\* row of an in-window day.
C21_Witness ==
    /\ SpanCall
    /\ Len(helper.rows) = 2
    /\ \E i, j \in DOMAIN helper.rows :
           /\ OfAProduct(helper.rows[i])
           /\ ClaimedSpan(helper.rows[i]) <= 0
           /\ RowValue(helper.rows[i]) > 0
           /\ helper.rows[j].metric_id = "stars:lance:github"
           /\ ClaimedOverlap(helper.rows[j]) = 1
           /\ RowValue(helper.rows[j]) > 0
    /\ ~helper.out.raised
    /\ helper.out.value.lance = 0

\* C22: on an empty list _daily_interpolated, _rows_to_sparkline and
\* _rows_to_monthly_download_sparkline return the empty list,
\* _total_stars_aggregate returns (None, []), and
\* _last_30d_download_totals returns 0 for both products with window_end
\* the latest completed day and window_start 29 days before it.
C22_EmptyInputEmptyResult ==
    (helper.fn \in {"_daily_interpolated", "_rows_to_sparkline",
                    "_rows_to_monthly_download_sparkline",
                    "_total_stars_aggregate", "_last_30d_download_totals"}
     /\ helper.rows = <<>>) =>
        /\ ~helper.out.raised
        /\ helper.fn \in {"_daily_interpolated", "_rows_to_sparkline",
                          "_rows_to_monthly_download_sparkline"} =>
               helper.out.value = <<>>
        /\ helper.fn = "_total_stars_aggregate" =>
               helper.out.value = [total |-> <<>>, sparkline |-> <<>>]
        /\ helper.fn = "_last_30d_download_totals" =>
               helper.out.value =
                   [window_start |-> IsoFormat(helper.window_end - 29),
                    window_end |-> IsoFormat(helper.window_end),
                    lance |-> 0, lancedb |-> 0]

\* _last_30d_download_totals has been called on no rows.
C22_Witness ==
    /\ helper.fn = "_last_30d_download_totals"
    /\ helper.rows = <<>>
    /\ helper.out.value.window_start = IsoFormat(helper.window_end - 29)

\* The rows of a star metric in the call, the days they know and the value
\* they give each.
StarRowsOf(m) ==
    SelectSeq(helper.rows, LAMBDA r : Get(r, "metric_id", None) = m)

StarMetricsWithData == {m \in Range(STAR_METRIC_IDS) : StarRowsOf(m) # <<>>}

StarKnown(m) ==
    [d \in KnownDaysOf(StarRowsOf(m)) |-> StoredValue(StarRowsOf(m), d)]

\* _total_stars_aggregate has been called on rows whose star rows are
\* usable.
StarsCall ==
    /\ helper.fn = "_total_stars_aggregate"
    /\ \A m \in Range(STAR_METRIC_IDS) : AllWellFormed(helper.fn, StarRowsOf(m))

\* The union of the metrics' day ranges.
StarDays ==
    UNION {Min(DOMAIN StarKnown(m))..Max(DOMAIN StarKnown(m)) : m \in StarMetricsWithData}

\* C23: _total_stars_aggregate returns the last `days` entries of the
\* series that has one entry per day of the union of the star metrics' day
\* ranges, in ascending order, each the sum over the metrics with rows of
\* the metric's own interpolated or clamped value on the day, and the last
\* entry's value as the total; a metric without rows adds nothing; one
\* metric known on day 1 only and the other on day 2 only give a series of
\* both days.
C23_SumOverUnionOfDayRanges ==
    StarsCall =>
        /\ ~helper.out.raised
        /\ LET out == helper.out.value.sparkline
               n == Min({helper.days, Cardinality(StarDays)})
               skipped == Cardinality(StarDays) - n
           IN  /\ Len(out) = n
               /\ \A k \in 1..n :
                      \E d \in StarDays :
                          /\ Cardinality({e \in StarDays : e < d}) = skipped + k - 1
                          /\ out[k].period_end = IsoFormat(d)
                          /\ out[k].period_start = IsoFormat(d)
                          /\ out[k].value =
                                 SumFn([m \in StarMetricsWithData |->
                                           InterpolateValue(d, StarKnown(m))])
               /\ helper.out.value.total =
                      (IF n = 0 THEN <<>> ELSE <<out[n].value>>)
        /\ (/\ Len(helper.rows) = 2
            /\ helper.rows[1] = StarSeriesRow("stars:lance:github", 1, 4)
            /\ helper.rows[2] = StarSeriesRow("stars:lancedb:github", 2, 20)
            /\ helper.days >= 2) =>
               /\ Len(helper.out.value.sparkline) = 2
               /\ helper.out.value.sparkline[1].value = 24
               /\ helper.out.value.total = <<24>>

\* One metric known on days 1 and 3, the other on day 2 only: on day 1 the
\* other adds its clamped value, on day 2 the first its interpolated one.
C23_Witness ==
    /\ StarsCall
    /\ Len(helper.rows) = 3
    /\ DOMAIN StarKnown("stars:lance:github") = {1, 3}
    /\ StarKnown("stars:lance:github")[1] # StarKnown("stars:lance:github")[3]
    /\ DOMAIN StarKnown("stars:lancedb:github") = {2}
    /\ helper.days >= 3
    /\ Len(helper.out.value.sparkline) = 3
    /\ helper.out.value.sparkline[1].value =
           StarKnown("stars:lance:github")[1] + 20

\* C26: days_to_refresh raises ValueError on a negative lookback_days;
\* otherwise it returns a gap-free ascending list that, when not empty,
\* ends at latest_completed_period_end and starts at the earlier of
\* latest_existing_period_end + 1 (latest_completed_period_end when nothing
\* is stored) and, for lookback_days = k > 0, latest_completed_period_end
\* - (k - 1); with k > 0 it holds the last k days, with k = 0 and a stored
\* latest day it is empty exactly when that day is not before the latest
\* completed day.
C26_DaysToRefreshRange ==
    helper.fn = "days_to_refresh" =>
        LET existing == helper.latest_existing_period_end
            completed == helper.latest_completed_period_end
            k == helper.lookback_days
            after_stored == IF existing = <<>> THEN completed ELSE existing[1] + 1
            earliest == IF k > 0 THEN Min({after_stored, completed - (k - 1)})
                        ELSE after_stored
        IN  IF k < 0 THEN helper.out.raised
            ELSE /\ ~helper.out.raised
                 /\ LET days == helper.out.value
                    IN  /\ \A i \in 1..(Len(days) - 1) : days[i + 1] = days[i] + 1
                        /\ days # <<>> =>
                               /\ days[Len(days)] = completed
                               /\ days[1] = earliest
                        /\ days = <<>> => earliest > completed
                        /\ k > 0 =>
                               \A d \in (completed - (k - 1))..completed :
                                   \E i \in DOMAIN days : days[i] = d
                        /\ (k = 0 /\ existing # <<>>) =>
                               (days = <<>> <=> existing[1] >= completed)
                        /\ (k = 0 /\ existing = <<>>) => days = <<completed>>

\* A lookback of two days while the stored latest day is the latest
\* completed day: the last two days are refreshed again.
C26_Witness ==
    /\ helper.fn = "days_to_refresh"
    /\ helper.lookback_days = 2
    /\ helper.latest_existing_period_end = <<helper.latest_completed_period_end>>
    /\ helper.out.value =
           <<helper.latest_completed_period_end - 1, helper.latest_completed_period_end>>

(***************************************************************************)
(* Claims about concurrent writers (SpecWriters).                          *)
(***************************************************************************)
\* Both callers have returned.
WritersDone ==
    /\ writers.phase = "running"
    /\ writers.a.pc = "done"
    /\ writers.b.pc = "done"

\* The table after one whole call of replace_stats(rows).
AfterCall(table, rows) == IF rows = <<>> THEN table ELSE ReplacedTable(table, rows)

KeysOf(rows) == {<<rows[i].metric_id, rows[i].period_end>> : i \in DOMAIN rows}

RowsWithKey(table, key) ==
    Size(RowsWhere(table, {r \in DOMAIN table : <<r.metric_id, r.period_end>> = key}))

\* C24: when the batches of two concurrent replace_stats calls touch
\* disjoint sets of metric_ids, the stats table after both have returned
\* is, under every interleaving of their deletes and appends, the table
\* that running the two calls one after the other gives, in either order.
C24_DisjointMetricsCommute ==
    (/\ WritersDone
     /\ BatchMetrics(writers.a.rows) \cap BatchMetrics(writers.b.rows) = {}) =>
        /\ stats = AfterCall(AfterCall(writers.before, writers.a.rows), writers.b.rows)
        /\ stats = AfterCall(AfterCall(writers.before, writers.b.rows), writers.a.rows)

\* Both callers wrote, one of them two metrics, over a filled table.
C24_Witness ==
    /\ WritersDone
    /\ BatchMetrics(writers.a.rows) \cap BatchMetrics(writers.b.rows) = {}
    /\ Cardinality(BatchMetrics(writers.a.rows)) = 2
    /\ writers.b.rows # <<>>
    /\ writers.before = StoredBefore
    /\ stats # writers.before

\* C25: when the batches of two concurrent replace_stats calls share a
\* key, the stats table after both have returned holds at most one row of
\* that key, under every interleaving.
C25_OneRowPerKeyUnderConcurrency ==
    WritersDone =>
        \A key \in KeysOf(writers.a.rows) \cap KeysOf(writers.b.rows) :
            RowsWithKey(stats, key) <= 1

(***************************************************************************)
(* Claims about table creation (SpecTables).                               *)
(***************************************************************************)
Creating == call.op = "create_required_tables"

\* An error with authorization or schema wording and no transient wording.
TerminalWording(exc) == exc.terminal_token /\ ~exc.transient_token

IsPrefix(seq, of) == Len(seq) <= Len(of) /\ \A i \in DOMAIN seq : seq[i] = of[i]

\* What holds at every point of a create_required_tables call.
TableCreationSteps ==
    Creating =>
        /\ IsPrefix(call.started, EXPECTED_TABLES)
        /\ IsPrefix(call.created, EXPECTED_TABLES)
        /\ Len(call.started) = call.table
        /\ call.attempts <= TABLE_READY_MAX_ATTEMPTS
        /\ call.outcome = "running" =>
               /\ Len(call.created) = Len(call.started) - 1
               /\ call.attempts < TABLE_READY_MAX_ATTEMPTS
               /\ call.attempts > 0 => ~TerminalWording(call.last_error)
        /\ call.outcome = "returned" =>
               /\ call.created = EXPECTED_TABLES
               /\ call.raised = NoError
        /\ call.outcome = "raised" =>
               /\ Len(call.created) = Len(call.started) - 1
               /\ call.raised.table_name = EXPECTED_TABLES[call.table]
               /\ call.raised.error = call.last_error
               /\ IF TerminalWording(call.last_error)
                  THEN call.raised.kind = "terminal"
                  ELSE /\ call.raised.kind = "timed_out"
                       /\ call.attempts = TABLE_READY_MAX_ATTEMPTS

\* C28: _create_table_ready calls create_table again after every error that
\* is not terminal and returns at the first success; an error with
\* authorization or schema wording and no transient wording raises
\* RuntimeError at once; after TABLE_READY_MAX_ATTEMPTS failed attempts a
\* RuntimeError names the table and the last error, so every call of
\* create_required_tables ends; the tables are handled in the order
\* metrics, stats, history, none started before the one before it is
\* created.
C28_TableCreationBoundedRetry ==
    /\ []TableCreationSteps
    /\ [][(Creating /\ call.outcome = "running" /\ call'.op = call.op) =>
             \/ (call'.outcome = "running" /\ call'.table = call.table
                    /\ call'.attempts = call.attempts + 1)
             \/ (call'.outcome = "running" /\ call'.table = call.table + 1
                    /\ call'.attempts = 0)
             \/ call'.outcome # "running"]_vars
    /\ (Creating /\ call.outcome = "running") ~> (Creating /\ call.outcome # "running")

\* The second table timed out after the first was created: the last
\* error carried both a terminal and a transient wording.
C28_Witness ==
    /\ Creating
    /\ call.outcome = "raised"
    /\ call.raised.kind = "timed_out"
    /\ call.raised.table_name = "stats"
    /\ call.created = <<"metrics">>
    /\ call.attempts = TABLE_READY_MAX_ATTEMPTS
    /\ call.last_error.terminal_token
    /\ call.last_error.transient_token

====
